---- MODULE Spec2Model ----
(***************************************************************************)
(* wavevid: frame-timeline synthesis and audio-mix graph construction.     *)
(*                                                                         *)
(* The model follows cli.main -> render_video / render_audio               *)
(* (src/src/wavevid/cli.py, src/src/wavevid/renderer.py).                  *)
(*                                                                         *)
(* Time values that the program holds as float seconds are held here as    *)
(* integer ticks, TicksPerSec ticks to the second, SubMs ticks to the      *)
(* millisecond, so that int(x * 1000) truncates as it does in the code.    *)
(* Gains are held in thousandths (volume=0.3 is 300).                      *)
(***************************************************************************)
EXTENDS Integers, Sequences, FiniteSets, TLC

VARIABLES
    opt,        \* the command-line options and the input assets (frozen)
    pc,         \* position in main / render_video / render_audio
    args,       \* the keyword arguments main passes to the renderer
    graph,      \* the ffmpeg inputs and audio filter handed to the encoder
    result,     \* what the renderer returned: [returned, success, duration]
    exc,        \* the exception that left the renderer, "none" if none
    n_frames,
    intro_clip_frame_count,
    fade_duration_frames,
    intro_clip_frames_list,
    total_frames,
    subtitle_lookup,
    i,          \* the frame loop's index
    written,    \* the frames the encoder's stdin accepted, in order
    write_calls,\* number of process.stdin.write calls made
    process,    \* the encoder process
    files,      \* the output video, the thumbnail and the temporary files
    post,       \* return codes of the post-processing commands
    visualizer, \* the visualizer object of render_video
    anim,       \* the animation object under evaluation
    call        \* the last call made on the animation values, and what it returned

cfgvars   == <<opt, args>>
framevars == <<n_frames, intro_clip_frame_count, fade_duration_frames,
               intro_clip_frames_list, total_frames>>
loopvars  == <<subtitle_lookup, i, written, write_calls>>
envvars   == <<process, files, post>>
animvars  == <<anim, call>>
vars == <<opt, pc, args, graph, result, exc, n_frames, intro_clip_frame_count,
          fade_duration_frames, intro_clip_frames_list, total_frames,
          subtitle_lookup, i, written, write_calls, process, files, post,
          visualizer, anim, call>>

----------------------------------------------------------------------------
(* Units *)

MsPerSec == 1000
SubMs == 2
TicksPerSec == MsPerSec * SubMs

Sec(n) == n * TicksPerSec
HalfSec == TicksPerSec \div 2

Max(a, b) == IF a >= b THEN a ELSE b
Min(a, b) == IF a <= b THEN a ELSE b

\* Python int(n / d) for d > 0: truncation toward zero
PyInt(n, d) == IF n >= 0 THEN n \div d ELSE -((-n) \div d)

\* int(seconds * 1000) of a tick value
ToMs(t) == PyInt(t * MsPerSec, TicksPerSec)

----------------------------------------------------------------------------
(* The filter graph: a sequence of stages, each an input list, an ordered  *)
(* operation list and an output label.                                     *)

Op(name, st, d, v) == [name |-> name, st |-> st, d |-> d, v |-> v]

Volume(g)       == Op("volume", 0, 0, g)
Adelay(ms)      == Op("adelay", 0, 0, ms)
Atrim(end)      == Op("atrim", 0, end, 0)
AfadeIn(st, d)  == Op("afade_in", st, d, 0)
AfadeOut(st, d) == Op("afade_out", st, d, 0)
Dynaudnorm      == Op("dynaudnorm", 0, 0, 0)
Amix(duration)  == Op("amix_" \o duration, 0, 0, 2)
Acompressor     == Op("acompressor", 0, 0, 0)

\* [{idx}:a], a stream of ffmpeg input idx; [name], a stage's output
In(idx)   == [idx |-> idx, label |-> ""]
Lbl(name) == [idx |-> -1, label |-> name]

Stage(ins, ops, out) == [ins |-> ins, ops |-> ops, out |-> out]

\* map: the -map arguments that follow the filter
NoGraph == [kind |-> "none", inputs |-> <<>>, parts |-> <<>>, volume |-> 0, map |-> <<>>]

\* variant: the intro sound is delayed to the end of the intro clip
IntroStage_Delayed(intro_idx, intro_trim, intro_fade_out_start, intro_duration) ==
    Stage(<<In(intro_idx)>>,
          <<Dynaudnorm, Volume(300), Atrim(intro_trim), AfadeIn(0, HalfSec),
            AfadeOut(intro_fade_out_start, intro_duration),
            Adelay(ToMs(intro_fade_out_start))>>,
          "intro")

\* f'[{intro_idx}:a]dynaudnorm=p=0.9:s=5,volume=0.3,atrim=0:{intro_trim},
\*   afade=t=in:st=0:d=0.5,afade=t=out:st={intro_fade_out_start}:d={intro_duration}[intro]'
IntroStage(intro_idx, intro_trim, intro_fade_out_start, intro_duration) ==
    Stage(<<In(intro_idx)>>,
          <<Dynaudnorm, Volume(300), Atrim(intro_trim), AfadeIn(0, HalfSec),
            AfadeOut(intro_fade_out_start, intro_duration)>>,
          "intro")

\* variant: the outro is delayed before it is trimmed and faded
OutroStage_DelayFirst(outro_idx, outro_total_duration, outro_fade_out_start, outro_delay_ms) ==
    Stage(<<In(outro_idx)>>,
          <<Dynaudnorm, Volume(350), Adelay(outro_delay_ms), Atrim(outro_total_duration),
            AfadeIn(0, Sec(3)), AfadeOut(outro_fade_out_start, Sec(3))>>,
          "outro")

\* f'[{outro_idx}:a]dynaudnorm=p=0.9:s=5,volume=0.35,atrim=0:{outro_total_duration},
\*   afade=t=in:st=0:d=3,afade=t=out:st={outro_fade_out_start}:d=3,
\*   adelay={outro_delay_ms}|{outro_delay_ms}[outro]'
OutroStage(outro_idx, outro_total_duration, outro_fade_out_start, outro_delay_ms) ==
    Stage(<<In(outro_idx)>>,
          <<Dynaudnorm, Volume(350), Atrim(outro_total_duration), AfadeIn(0, Sec(3)),
            AfadeOut(outro_fade_out_start, Sec(3)), Adelay(outro_delay_ms)>>,
          "outro")

\* f'[{bg_music_idx}:a]atrim=0:{bg_music_duration},volume={bg_music_factor},
\*   afade=t=in:st=0:d=3,afade=t=out:st={fade_out_start}:d=3,
\*   adelay={bg_music_delay_ms}|{bg_music_delay_ms}[bgm]'
BgmStage(bg_music_idx, bg_music_duration, bg_music_factor, fade_out_start, bg_music_delay_ms) ==
    Stage(<<In(bg_music_idx)>>,
          <<Atrim(bg_music_duration), Volume(bg_music_factor), AfadeIn(0, Sec(3)),
            AfadeOut(fade_out_start, Sec(3)), Adelay(bg_music_delay_ms)>>,
          "bgm")

\* '[a][b]amix=inputs=2:duration=longest:weights=1 1:normalize=0[out]'
MixStage(a, b, out) == Stage(<<Lbl(a), Lbl(b)>>, <<Amix("longest")>>, out)

\* the last stage: the compressor, after the background-music mix if any
FinalStage(current_mix, bg_music) ==
    IF bg_music
    THEN Stage(<<Lbl(current_mix), Lbl("bgm")>>, <<Amix("first"), Acompressor>>, "aout")
    ELSE Stage(<<Lbl(current_mix)>>, <<Acompressor>>, "aout")

----------------------------------------------------------------------------
(* Timing arithmetic of the mix, written the same way in render_video and  *)
(* in render_audio.                                                        *)

\* outro_total_duration = 5 + end_screen_sec + 2
OutroTotalDuration(end_screen_sec) == Sec(5) + end_screen_sec + Sec(2)

\* variant: the end screen is not taken off the total duration
OutroStartTime_KeepsEndScreen(total_duration, end_screen_sec) ==
    Max(0, total_duration - Sec(5))

\* variant: the start time is not clamped at zero
OutroStartTime_Unclamped(total_duration, end_screen_sec) ==
    total_duration - end_screen_sec - Sec(5)

\* outro_start_time = max(0, total_video_duration - end_screen_sec - 5)
OutroStartTime(total_duration, end_screen_sec) ==
    Max(0, total_duration - end_screen_sec - Sec(5))

\* outro_fade_out_start = max(0, outro_total_duration - 3)
OutroFadeOutStart(outro_total_duration) == Max(0, outro_total_duration - Sec(3))

\* bg_music_duration = main_duration_sec - 5 with an outro, + 5 without
BgMusicDuration(outro_sound, main_duration_sec) ==
    IF outro_sound THEN main_duration_sec - Sec(5) ELSE main_duration_sec + Sec(5)

\* fade_out_start = max(0, bg_music_duration - 3) with an outro, - 5 without
BgFadeOutStart(outro_sound, bg_music_duration) ==
    IF outro_sound THEN Max(0, bg_music_duration - Sec(3))
                   ELSE Max(0, bg_music_duration - Sec(5))

\* the intro / outro part of the mix chain, and the label it leaves in current_mix
MixChain(intro_sound, outro_sound, intro_idx, outro_idx, intro_trim, intro_clip_duration, intro_duration, total_duration, end_screen_sec) ==
    LET intro_fade_out_start == intro_clip_duration
        outro_total_duration == OutroTotalDuration(end_screen_sec)
        outro_start_time     == OutroStartTime(total_duration, end_screen_sec)
        outro_delay_ms       == ToMs(outro_start_time)
        outro_fade_out_start == OutroFadeOutStart(outro_total_duration)
        intro == IntroStage(intro_idx, intro_trim, intro_fade_out_start, intro_duration)
        outro == OutroStage(outro_idx, outro_total_duration, outro_fade_out_start,
                            outro_delay_ms)
    IN  IF intro_sound /\ outro_sound
        THEN [parts |-> <<intro, outro, MixStage("intro", "main", "with_intro"),
                          MixStage("with_intro", "outro", "premix")>>,
              current_mix |-> "premix"]
        ELSE IF intro_sound
        THEN [parts |-> <<intro, MixStage("intro", "main", "premix")>>,
              current_mix |-> "premix"]
        ELSE IF outro_sound
        THEN [parts |-> <<outro, MixStage("main", "outro", "premix")>>,
              current_mix |-> "premix"]
        ELSE [parts |-> <<>>, current_mix |-> "main"]

\* the background-music stage, if any, and the final stage
BgmAndFinal(bg_music, outro_sound, bg_music_idx, bg_music_factor, intro_clip_delay_ms, main_duration_sec, current_mix) ==
    LET bg_music_delay_ms == intro_clip_delay_ms
        bg_music_duration == BgMusicDuration(outro_sound, main_duration_sec)
        fade_out_start    == BgFadeOutStart(outro_sound, bg_music_duration)
    IN  IF bg_music
        THEN <<BgmStage(bg_music_idx, bg_music_duration, bg_music_factor,
                        fade_out_start, bg_music_delay_ms),
               FinalStage(current_mix, TRUE)>>
        ELSE <<FinalStage(current_mix, FALSE)>>

\* variant: the background music is put first on the command line
ExtraInputs_BgmFirst(intro_sound, outro_sound, bg_music) ==
    (IF bg_music THEN <<"bg_music">> ELSE <<>>) \o
    (IF intro_sound THEN <<"intro_sound">> ELSE <<>>) \o
    (IF outro_sound THEN <<"outro_sound">> ELSE <<>>)

\* the -i inputs after the first ones, in command-line order
ExtraInputs(intro_sound, outro_sound, bg_music) ==
    (IF intro_sound THEN <<"intro_sound">> ELSE <<>>) \o
    (IF outro_sound THEN <<"outro_sound">> ELSE <<>>) \o
    (IF bg_music THEN <<"bg_music">> ELSE <<>>)

\* variant: the main track is delayed by the intro sound as well
VideoMainStage_TotalDelay(a, volume_factor, intro_clip_delay_ms) ==
    IF a.intro_sound
    THEN Stage(<<In(1)>>, <<Volume((volume_factor * 25) \div 10),
                            Adelay(intro_clip_delay_ms + ToMs(a.intro_duration))>>,
               "main")
    ELSE IF a.intro_title
    THEN Stage(<<In(1)>>, <<Volume(volume_factor), AfadeIn(0, Sec(2)),
                            Adelay(intro_clip_delay_ms)>>, "main")
    ELSE Stage(<<In(1)>>, <<Volume(volume_factor), AfadeIn(0, Sec(2))>>, "main")

\* render_video: the main-audio stage
VideoMainStage(a, volume_factor, intro_clip_delay_ms) ==
    IF a.intro_sound
    THEN Stage(<<In(1)>>, <<Volume((volume_factor * 25) \div 10), Adelay(intro_clip_delay_ms)>>,
               "main")
    ELSE IF a.intro_title
    THEN Stage(<<In(1)>>, <<Volume(volume_factor), AfadeIn(0, Sec(2)),
                            Adelay(intro_clip_delay_ms)>>, "main")
    ELSE Stage(<<In(1)>>, <<Volume(volume_factor), AfadeIn(0, Sec(2))>>, "main")

\* render_video: ffmpeg inputs and audio filter
RenderVideoFilter(a, duration) ==
    LET volume_factor        == a.volume * 10
        bg_music_factor      == IF a.bg_music THEN a.bg_music_volume * 10 ELSE 0
        main_duration_sec    == duration
        end_screen_sec       == IF a.end_screen THEN a.end_screen_duration ELSE 0
        intro_clip_delay_ms  == IF a.intro_title THEN ToMs(a.intro_clip_duration) ELSE 0
        intro_sound_delay_ms == IF a.intro_sound THEN ToMs(a.intro_duration) ELSE 0
        total_audio_delay_ms == intro_clip_delay_ms + intro_sound_delay_ms
        intro_trim           == a.intro_duration + Sec(10)
        total_video_duration == main_duration_sec
                                + (IF a.intro_title THEN a.intro_clip_duration ELSE 0)
                                + end_screen_sec
        intro_idx    == 2
        outro_idx    == 2 + (IF a.intro_sound THEN 1 ELSE 0)
        bg_music_idx == 2 + (IF a.intro_sound THEN 1 ELSE 0)
                          + (IF a.outro_sound THEN 1 ELSE 0)
        inputs == <<"-", "input_audio">>
                  \o ExtraInputs(a.intro_sound, a.outro_sound, a.bg_music)
        chain == MixChain(a.intro_sound, a.outro_sound, intro_idx, outro_idx, intro_trim,
                          a.intro_clip_duration, a.intro_duration,
                          total_video_duration, end_screen_sec)
    IN  IF a.intro_sound \/ a.outro_sound \/ a.intro_title \/ a.bg_music
        THEN [kind |-> "filter_complex", inputs |-> inputs, volume |-> 0,
              map |-> <<"0:v", "[aout]">>,
              parts |-> <<VideoMainStage(a, volume_factor, intro_clip_delay_ms)>>
                        \o chain.parts
                        \o BgmAndFinal(a.bg_music, a.outro_sound, bg_music_idx,
                                       bg_music_factor, intro_clip_delay_ms,
                                       main_duration_sec, chain.current_mix)]
        ELSE IF a.volume # 100
        THEN [kind |-> "af", inputs |-> inputs, volume |-> volume_factor, parts |-> <<>>,
              map |-> <<>>]
        ELSE [kind |-> "none", inputs |-> inputs, volume |-> 0, parts |-> <<>>,
              map |-> <<>>]

\* render_audio: the main-audio stage
AudioMainStage(a, volume_factor, intro_clip_delay_ms) ==
    IF a.intro_sound
    THEN Stage(<<In(0)>>, <<Volume((volume_factor * 25) \div 10), Adelay(intro_clip_delay_ms)>>,
               "main")
    ELSE IF a.intro_clip_duration > 0
    THEN Stage(<<In(0)>>, <<Volume(volume_factor), AfadeIn(0, Sec(2)),
                            Adelay(intro_clip_delay_ms)>>, "main")
    ELSE Stage(<<In(0)>>, <<Volume(volume_factor), AfadeIn(0, Sec(2))>>, "main")

\* render_audio: total_audio_duration = duration + intro_clip_duration + end_screen_sec
TotalAudioDuration(a, duration) ==
    duration + a.intro_clip_duration + a.end_screen_duration

\* render_audio: ffmpeg inputs and audio filter
RenderAudioFilter(a, duration) ==
    LET volume_factor        == a.volume * 10
        bg_music_factor      == IF a.bg_music THEN a.bg_music_volume * 10 ELSE 0
        intro_clip_delay_ms  == IF a.intro_clip_duration > 0
                                THEN ToMs(a.intro_clip_duration) ELSE 0
        intro_trim           == a.intro_duration + Sec(10)
        end_screen_sec       == a.end_screen_duration
        total_audio_duration == TotalAudioDuration(a, duration)
        intro_idx    == 1
        outro_idx    == 1 + (IF a.intro_sound THEN 1 ELSE 0)
        bg_music_idx == 1 + (IF a.intro_sound THEN 1 ELSE 0)
                          + (IF a.outro_sound THEN 1 ELSE 0)
        inputs == <<"input_audio">>
                  \o ExtraInputs(a.intro_sound, a.outro_sound, a.bg_music)
        chain == MixChain(a.intro_sound, a.outro_sound, intro_idx, outro_idx, intro_trim,
                          a.intro_clip_duration, a.intro_duration,
                          total_audio_duration, end_screen_sec)
    IN  IF a.intro_sound \/ a.outro_sound \/ a.intro_clip_duration > 0 \/ a.bg_music
        THEN [kind |-> "filter_complex", inputs |-> inputs, volume |-> 0,
              map |-> <<"[aout]">>,
              parts |-> <<AudioMainStage(a, volume_factor, intro_clip_delay_ms)>>
                        \o chain.parts
                        \o BgmAndFinal(a.bg_music, a.outro_sound, bg_music_idx,
                                       bg_music_factor, intro_clip_delay_ms,
                                       duration, chain.current_mix)]
        ELSE IF a.volume # 100
        THEN [kind |-> "af", inputs |-> inputs, volume |-> volume_factor, parts |-> <<>>,
              map |-> <<>>]
        ELSE [kind |-> "none", inputs |-> inputs, volume |-> 0, parts |-> <<>>,
              map |-> <<>>]

----------------------------------------------------------------------------
(* Audio analysis and the intro clip *)

\* load_audio(path, sr=22050)
SampleRate == 22050

\* len(y) of an input of the given duration
NumSamples(duration) == (duration * SampleRate) \div TicksPerSec

\* get_amplitude_envelope / get_waveform_chunks: n_frames = int(len(y) / hop_length)
EnvelopeFrames(len_y, sr, fps) == PyInt(len_y, sr \div fps)

\* librosa.stft(y, hop_length=hop_length), centred: 1 + len(y) // hop_length columns
BandFrames(len_y, sr, fps) == 1 + (len_y \div (sr \div fps))

\* variant: an empty split is let through
ArraySplitRaises_Never(n_sections) == FALSE

\* np.array_split(envelope, n_frames) raises ValueError for n_frames <= 0
ArraySplitRaises(n_sections) == n_sections <= 0

\* a prepared intro frame: the background frame it was drawn on (-1: the still
\* image) and the frame_idx its title animation was evaluated at; None is invalid
IntroFrame(bg, frame_idx) == [valid |-> TRUE, bg |-> bg, frame_idx |-> frame_idx]
NoneFrame == [valid |-> FALSE, bg |-> -1, frame_idx |-> -1]

\* frames extract_video_frames yields: at most max_frames of what the video holds
ExtractedFrames(video_frames, max_frames) == Min(video_frames, max_frames)

\* render_video: intro_clip_frames_list for an intro title
IntroClipFrames(count, intro_bg, intro_static, video_frames) ==
    IF intro_bg = "video"
    THEN LET k == ExtractedFrames(video_frames, count)
         IN  [j \in 1..count |->
                 IF j <= k THEN IntroFrame(j - 1, j - 1)
                 ELSE IF k > 0 THEN IntroFrame(k - 1, k - 1)
                 ELSE NoneFrame]
    ELSE IF intro_static
    THEN [j \in 1..count |-> IntroFrame(-1, 999)]
    ELSE [j \in 1..count |-> IntroFrame(-1, j - 1)]

----------------------------------------------------------------------------
(* Subtitle lookup *)

\* int(ms * fps / 1000) + subtitle_offset_frames
SubFrame(ms, fps, offset) == PyInt(ms * fps, MsPerSec) + offset

\* variant: a later segment overwrites the frames an earlier one claimed
AddSubtitle_LastWins(lookup, sub, fps, offset) ==
    LET start_frame == SubFrame(sub.start_ms, fps, offset)
        end_frame   == SubFrame(sub.end_ms, fps, offset)
    IN  [f \in (DOMAIN lookup) \cup (start_frame..end_frame) |->
            IF f \in start_frame..end_frame THEN sub.text ELSE lookup[f]]

\* variant: range(start_frame, end_frame), the end frame left out
AddSubtitle_ExclusiveEnd(lookup, sub, fps, offset) ==
    LET start_frame == SubFrame(sub.start_ms, fps, offset)
        end_frame   == SubFrame(sub.end_ms, fps, offset)
    IN  [f \in (DOMAIN lookup) \cup (start_frame..(end_frame - 1)) |->
            IF f \in DOMAIN lookup THEN lookup[f] ELSE sub.text]

\* one pass of the loop over subtitles: first match wins
AddSubtitle(lookup, sub, fps, offset) ==
    LET start_frame == SubFrame(sub.start_ms, fps, offset)
        end_frame   == SubFrame(sub.end_ms, fps, offset)
    IN  [f \in (DOMAIN lookup) \cup (start_frame..end_frame) |->
            IF f \in DOMAIN lookup THEN lookup[f] ELSE sub.text]

RECURSIVE BuildLookup(_, _, _, _)
BuildLookup(subs, k, fps, offset) ==
    IF k = 0 THEN [f \in {} |-> ""]
    ELSE AddSubtitle(BuildLookup(subs, k - 1, fps, offset), subs[k], fps, offset)

----------------------------------------------------------------------------
(* Visualizers (visualizers/*.py). Feature values and what a frame shows    *)
(* are held in thousandths; one frequency band and one particle stand for   *)
(* the 64 bands and the 200 particles.                                      *)

Styles == {"waveform", "radial", "bars", "spectrum", "particles"}

\* frame_data['amplitude'][idx], frame_data['bands'][idx], frame_data['waveform'][idx]
\* of a silent signal, of a steady one and of one that grows louder
FrameData(signal, idx) ==
    CASE signal = "silent" -> [amplitude |-> 0, bands |-> 0, waveform |-> 0]
      [] signal = "steady" -> [amplitude |-> 1000, bands |-> 800, waveform |-> 500]
      [] OTHER -> [amplitude |-> 1000, bands |-> Min(1000, 200 * (idx + 1)),
                   waveform |-> 500]

NoVisualizer == [style |-> "none", peak_values |-> <<>>, seed |-> 0, steps |-> 0]

\* visualizer_class(width, height, wave_color): peak_values is None (here <<>>);
\* the particles start at random angles, seed stands for the draw
NewVisualizer(style, seed) ==
    [style |-> style, peak_values |-> <<>>, seed |-> seed, steps |-> 0]

\* variant: every style moves its drawing on with each call
StepsAfter_EveryStyle(v) == v.steps + 1

\* p['angle'] += p['angular_vel'], once per render_frame call of the particles
StepsAfter(v) == IF v.style = "particles" THEN v.steps + 1 ELSE v.steps

\* the peak update of the spectrum visualizer: peak_decay is 0.95
PeakAfter(v, bar_value) ==
    LET peak == IF v.peak_values = <<>> THEN 0 ELSE v.peak_values[1]
    IN  IF bar_value > peak THEN bar_value ELSE (peak * 95) \div 100

\* visualizer.render_frame(background, frame_data, frame_idx): the image drawn
\* and the visualizer as the call leaves it
render_frame(v, signal, frame_idx) ==
    LET data  == FrameData(signal, frame_idx)
        steps == StepsAfter(v)
    IN  CASE v.style = "spectrum" ->
               LET bar_value == (data.bands * (600 + (data.amplitude * 400) \div 1000))
                                   \div 1000
                   peak == PeakAfter(v, bar_value)
               IN  [img |-> [bar |-> bar_value, peak |-> peak, seed |-> v.seed,
                             steps |-> steps],
                    visualizer |-> [v EXCEPT !.peak_values = <<peak>>, !.steps = steps]]
          [] v.style = "particles" ->
               [img |-> [bar |-> 1000 + (data.amplitude * 500) \div 1000
                                      + (data.bands * 300) \div 1000,
                         peak |-> 0, seed |-> v.seed, steps |-> steps],
                visualizer |-> [v EXCEPT !.steps = steps]]
          [] v.style \in {"bars", "radial"} ->
               [img |-> [bar |-> (data.bands * (500 + (data.amplitude * 500) \div 1000))
                                    \div 1000,
                         peak |-> 0, seed |-> v.seed, steps |-> steps],
                visualizer |-> [v EXCEPT !.steps = steps]]
          [] OTHER ->
               [img |-> [bar |-> data.waveform, peak |-> 0, seed |-> v.seed,
                         steps |-> steps],
                visualizer |-> [v EXCEPT !.steps = steps]]

\* no visualizer image in the frame
NoImage == [bar |-> 0, peak |-> 0, seed |-> 0, steps |-> 0]

----------------------------------------------------------------------------
(* One pass of the frame loop *)

\* variant: the lower clamp is missing
DataIdx_NoLowerClamp(idx, icf, wave_sync, fps, n) ==
    LET sync_offset_frames == PyInt(wave_sync * fps, TicksPerSec)
        data_idx == idx - icf - sync_offset_frames
    IN  Min(data_idx, n - 1)

\* data_idx = max(0, min(i - intro_clip_frame_count - sync_offset_frames, n_frames - 1))
DataIdx(idx, icf, wave_sync, fps, n) ==
    LET sync_offset_frames == PyInt(wave_sync * fps, TicksPerSec)
        data_idx == idx - icf - sync_offset_frames
    IN  Max(0, Min(data_idx, n - 1))

\* variant: the fade zone starts one frame late
InFadeZone_StartsLate(idx, icf, fdf) == idx > icf - fdf

\* fade_start = intro_clip_frame_count - fade_duration_frames; i >= fade_start
InFadeZone(idx, icf, fdf) == idx >= icf - fdf

\* the frame composed for output index idx; ok is FALSE when composing it
\* raises (an intro frame that is None)
ComposeFrame(idx) ==
    LET sub == IF idx \in DOMAIN subtitle_lookup THEN subtitle_lookup[idx] ELSE ""
    IN  IF intro_clip_frame_count > 0 /\ idx < intro_clip_frame_count
        THEN LET intro_frame == intro_clip_frames_list[idx + 1]
                 fade_start  == intro_clip_frame_count - fade_duration_frames
             IN  IF InFadeZone(idx, intro_clip_frame_count, fade_duration_frames)
                 THEN [ok |-> intro_frame.valid, idx |-> idx, phase |-> "fade",
                       intro |-> intro_frame, data_idx |-> 0,
                       alpha_num |-> idx - fade_start, alpha_den |-> fade_duration_frames,
                       subtitle |-> sub,
                       vis |-> render_frame(visualizer, opt.signal, 0).img]
                 ELSE [ok |-> intro_frame.valid, idx |-> idx, phase |-> "intro",
                       intro |-> intro_frame, data_idx |-> -1,
                       alpha_num |-> 0, alpha_den |-> 1, subtitle |-> sub,
                       vis |-> NoImage]
        ELSE [ok |-> TRUE, idx |-> idx, phase |-> "main", intro |-> NoneFrame,
              data_idx |-> DataIdx(idx, intro_clip_frame_count, opt.wave_sync,
                                   opt.fps, n_frames),
              alpha_num |-> 0, alpha_den |-> 1, subtitle |-> sub,
              vis |-> render_frame(visualizer, opt.signal,
                                   DataIdx(idx, intro_clip_frame_count, opt.wave_sync,
                                           opt.fps, n_frames)).img]

\* the visualizer after the frame for output index idx was composed
VisualizerAfter(idx) ==
    IF intro_clip_frame_count > 0 /\ idx < intro_clip_frame_count
    THEN (IF InFadeZone(idx, intro_clip_frame_count, fade_duration_frames)
          THEN render_frame(visualizer, opt.signal, 0).visualizer
          ELSE visualizer)
    ELSE render_frame(visualizer, opt.signal,
                      DataIdx(idx, intro_clip_frame_count, opt.wave_sync, opt.fps,
                              n_frames)).visualizer

----------------------------------------------------------------------------
(* Animation values (animations.py). Property values that the program holds *)
(* as floats are held here as fractions num/den in lowest terms. A Python   *)
(* float carries 53 significant bits and every operation rounds its exact   *)
(* result to the nearest float, ties to even; here a float carries          *)
(* MantissaBits significant bits and the operations round the same way.     *)

MantissaBits == 8

Abs(x) == IF x < 0 THEN -x ELSE x

RECURSIVE GCD(_, _)
GCD(a, b) == IF b = 0 THEN a ELSE GCD(b, a % b)

\* the fraction n/d, d > 0, in lowest terms
Rat(n, d) ==
    LET g == GCD(Abs(n), d)
    IN  [num |-> n \div g, den |-> d \div g]

Whole(n) == [num |-> n, den |-> 1]

RECURSIVE Pow2(_)
Pow2(n) == IF n = 0 THEN 1 ELSE 2 * Pow2(n - 1)

\* n/d, positive, scaled by a power of two into [2^(MantissaBits-1), 2^MantissaBits):
\* the scaled fraction and the s with n/d * 2^s equal to it
RECURSIVE Normalise(_, _, _)
Normalise(n, d, s) ==
    IF n \div Pow2(MantissaBits) >= d
    THEN (IF n % 2 = 0 THEN Normalise(n \div 2, d, s - 1) ELSE Normalise(n, d * 2, s - 1))
    ELSE IF n \div Pow2(MantissaBits - 1) < d
    THEN (IF d % 2 = 0 THEN Normalise(n, d \div 2, s + 1) ELSE Normalise(n * 2, d, s + 1))
    ELSE [n |-> n, d |-> d, s |-> s]

\* the integer nearest to n/d, the even one of two equally near
RoundHalfEven(n, d) ==
    LET q == n \div d
        r == n % d
    IN  IF r > d - r \/ (r = d - r /\ q % 2 = 1) THEN q + 1 ELSE q

\* the float nearest to the fraction r
Fl(r) ==
    IF r.num = 0 THEN [num |-> 0, den |-> 1]
    ELSE LET z == Normalise(Abs(r.num), r.den, 0)
             m == RoundHalfEven(z.n, z.d) * (IF r.num < 0 THEN -1 ELSE 1)
         IN  IF z.s >= 0 THEN Rat(m, Pow2(z.s)) ELSE [num |-> m * Pow2(-z.s), den |-> 1]

\* a float literal of the source, and the float of an int
Float(n, d) == Fl(Rat(n, d))

\* the exact sum and the exact product of two fractions
QAdd(a, b) ==
    LET g == GCD(a.den, b.den)
    IN  Rat(a.num * (b.den \div g) + b.num * (a.den \div g), (a.den \div g) * b.den)

QMul(a, b) ==
    LET g == GCD(Abs(a.num), b.den)
        h == GCD(Abs(b.num), a.den)
    IN  Rat((a.num \div g) * (b.num \div h), (a.den \div h) * (b.den \div g))

\* a + b of two floats
RAdd(a, b) == Fl(QAdd(a, b))

RNeg(a) == [num |-> -a.num, den |-> a.den]

RSub(a, b) == RAdd(a, RNeg(b))

\* a * b of two floats
RMul(a, b) == Fl(QMul(a, b))

RLess(a, b) == a.num * b.den < b.num * a.den

\* variant: the left argument whatever the right one is
RMax_Left(a, b) == a

\* max(a, b) of two floats
RMax(a, b) == IF RLess(a, b) THEN b ELSE a

\* AnimationState(...): the dataclass with its defaults
AnimationState ==
    [opacity |-> Whole(1), scale |-> Whole(1), offset_x |-> Whole(0),
     offset_y |-> Whole(0), rotation |-> Whole(0), blur |-> Whole(0),
     visible_chars |-> -1]

\* variant: an unbounded side makes the result unbounded
merge_UnboundedWins(self, other) ==
    [opacity  |-> RMul(self.opacity, other.opacity),
     scale    |-> RMul(self.scale, other.scale),
     offset_x |-> RAdd(self.offset_x, other.offset_x),
     offset_y |-> RAdd(self.offset_y, other.offset_y),
     rotation |-> RAdd(self.rotation, other.rotation),
     blur     |-> RMax(self.blur, other.blur),
     visible_chars |->
         Min(self.visible_chars, other.visible_chars)]

\* AnimationState.merge
merge(self, other) ==
    [opacity  |-> RMul(self.opacity, other.opacity),
     scale    |-> RMul(self.scale, other.scale),
     offset_x |-> RAdd(self.offset_x, other.offset_x),
     offset_y |-> RAdd(self.offset_y, other.offset_y),
     rotation |-> RAdd(self.rotation, other.rotation),
     blur     |-> RMax(self.blur, other.blur),
     visible_chars |->
         IF self.visible_chars >= 0 /\ other.visible_chars >= 0
         THEN Min(self.visible_chars, other.visible_chars)
         ELSE Max(self.visible_chars, other.visible_chars)]

----------------------------------------------------------------------------
(* Animations (animations.py). Times are ticks; an animation object is a    *)
(* record of the attributes its class sets, the others at a neutral value.  *)

\* Animation.__init__
Animation(type, duration, delay, easing) ==
    [type |-> type, duration |-> duration, delay |-> delay, easing |-> easing,
     start_scale |-> Whole(1), end_scale |-> Whole(1), distance |-> 0,
     total_chars |-> 0, animations |-> <<>>]

FadeIn(duration, delay, easing) == Animation("FadeIn", duration, delay, easing)

FadeOut(duration, delay, easing) == Animation("FadeOut", duration, delay, easing)

ScaleDown(duration, delay, start_scale, end_scale, easing) ==
    [Animation("ScaleDown", duration, delay, easing)
        EXCEPT !.start_scale = start_scale, !.end_scale = end_scale]

ScaleUp(duration, delay, start_scale, end_scale, easing) ==
    [Animation("ScaleUp", duration, delay, easing)
        EXCEPT !.start_scale = start_scale, !.end_scale = end_scale]

SlideUp(duration, delay, distance, easing) ==
    [Animation("SlideUp", duration, delay, easing) EXCEPT !.distance = distance]

SlideDown(duration, delay, distance, easing) ==
    [Animation("SlideDown", duration, delay, easing) EXCEPT !.distance = distance]

Typewriter(duration, delay, total_chars, easing) ==
    [Animation("Typewriter", duration, delay, easing) EXCEPT !.total_chars = total_chars]

RECURSIVE total_duration(_)
RECURSIVE MaxTotalDuration(_, _)
RECURSIVE SumTotalDuration(_, _)

\* max(a.total_duration() for a in animations), animations not empty
MaxTotalDuration(animations, k) ==
    IF k = 1 THEN total_duration(animations[1])
    ELSE Max(MaxTotalDuration(animations, k - 1), total_duration(animations[k]))

\* sum(a.total_duration() for a in animations)
SumTotalDuration(animations, k) ==
    IF k = 0 THEN 0
    ELSE SumTotalDuration(animations, k - 1) + total_duration(animations[k])

\* variant: a child's delay is not counted
total_duration_NoDelay(a) ==
    IF a.type = "Parallel"
    THEN (IF a.animations # <<>>
          THEN MaxTotalDuration(a.animations, Len(a.animations)) ELSE 0)
    ELSE IF a.type = "Sequential"
    THEN SumTotalDuration(a.animations, Len(a.animations))
    ELSE a.duration

\* total_duration() of Animation, and its overrides in Parallel and Sequential
total_duration(a) ==
    IF a.type = "Parallel"
    THEN (IF a.animations # <<>>
          THEN MaxTotalDuration(a.animations, Len(a.animations)) ELSE 0)
    ELSE IF a.type = "Sequential"
    THEN SumTotalDuration(a.animations, Len(a.animations))
    ELSE a.delay + a.duration

\* Parallel.__init__
Parallel(animations) ==
    [Animation("Parallel",
               IF animations # <<>>
               THEN MaxTotalDuration(animations, Len(animations)) ELSE 0,
               0, "linear")
        EXCEPT !.animations = animations]

\* Sequential.__init__
Sequential(animations) ==
    [Animation("Sequential", SumTotalDuration(animations, Len(animations)), 0, "linear")
        EXCEPT !.animations = animations]

\* Delay.__init__
Delay(duration) == Animation("Delay", duration, 0, "linear")

\* NoAnimation.__init__
NoAnimation == Animation("NoAnimation", 0, 0, "linear")

\* pow(x, 2) and pow(x, 3): the exact power, rounded once
pow(x, k) == IF k = 2 THEN Fl(QMul(x, x)) ELSE Fl(QMul(x, QMul(x, x)))

\* the easing functions
ease_linear(t) == t

ease_in_quad(t) == RMul(t, t)

ease_out_quad(t) ==
    LET u == RSub(Whole(1), t) IN RSub(Whole(1), RMul(u, u))

\* 2 * t * t if t < 0.5 else 1 - pow(-2 * t + 2, 2) / 2
ease_in_out_quad(t) ==
    IF RLess(t, Rat(1, 2))
    THEN RMul(RMul(Whole(2), t), t)
    ELSE LET u == RAdd(RMul(Whole(-2), t), Whole(2))
         IN  RSub(Whole(1), RMul(pow(u, 2), Rat(1, 2)))

ease_out_cubic(t) ==
    LET u == RSub(Whole(1), t) IN RSub(Whole(1), pow(u, 3))

\* c1 = 1.70158, c3 = c1 + 1
ease_out_back(t) ==
    LET c1 == Float(170158, 100000)
        c3 == RAdd(c1, Whole(1))
        u  == RSub(t, Whole(1))
    IN  RAdd(RAdd(Whole(1), RMul(c3, pow(u, 3))), RMul(c1, pow(u, 2)))

\* EASINGS.get(easing, ease_out_quad); 'out_elastic', which is not a fraction,
\* is not among the easings of the animations built below
easing_fn(easing, t) ==
    CASE easing = "linear"      -> ease_linear(t)
      [] easing = "in_quad"     -> ease_in_quad(t)
      [] easing = "in_out_quad" -> ease_in_out_quad(t)
      [] easing = "out_cubic"   -> ease_out_cubic(t)
      [] easing = "out_back"    -> ease_out_back(t)
      [] OTHER                  -> ease_out_quad(t)

\* _get_start_state of each class
get_start_state(a) ==
    CASE a.type = "FadeIn"     -> [AnimationState EXCEPT !.opacity = Whole(0)]
      [] a.type = "FadeOut"    -> [AnimationState EXCEPT !.opacity = Whole(1)]
      [] a.type \in {"ScaleDown", "ScaleUp"}
                               -> [AnimationState EXCEPT !.scale = a.start_scale]
      [] a.type = "SlideUp"    -> [AnimationState EXCEPT !.offset_y = Whole(a.distance)]
      [] a.type = "SlideDown"  -> [AnimationState EXCEPT !.offset_y = Whole(-a.distance)]
      [] a.type = "Typewriter" -> [AnimationState EXCEPT !.visible_chars = 0]
      [] OTHER                 -> AnimationState

\* _get_end_state of each class
get_end_state(a) ==
    CASE a.type = "FadeIn"     -> [AnimationState EXCEPT !.opacity = Whole(1)]
      [] a.type = "FadeOut"    -> [AnimationState EXCEPT !.opacity = Whole(0)]
      [] a.type \in {"ScaleDown", "ScaleUp"}
                               -> [AnimationState EXCEPT !.scale = a.end_scale]
      [] a.type \in {"SlideUp", "SlideDown"}
                               -> [AnimationState EXCEPT !.offset_y = Whole(0)]
      [] a.type = "Typewriter" -> [AnimationState EXCEPT !.visible_chars = a.total_chars]
      [] OTHER                 -> AnimationState

\* _interpolate of each class
interpolate(a, progress) ==
    CASE a.type = "FadeIn"     -> [AnimationState EXCEPT !.opacity = progress]
      [] a.type = "FadeOut"    ->
            [AnimationState EXCEPT !.opacity = RSub(Whole(1), progress)]
      [] a.type \in {"ScaleDown", "ScaleUp"} ->
            [AnimationState EXCEPT !.scale =
                RAdd(a.start_scale, RMul(RSub(a.end_scale, a.start_scale), progress))]
      [] a.type = "SlideUp"    ->
            [AnimationState EXCEPT !.offset_y =
                RMul(Whole(a.distance), RSub(Whole(1), progress))]
      [] a.type = "SlideDown"  ->
            [AnimationState EXCEPT !.offset_y =
                RMul(Whole(-a.distance), RSub(Whole(1), progress))]
      [] a.type = "Typewriter" ->
            [AnimationState EXCEPT !.visible_chars =
                LET chars == RMul(Whole(a.total_chars), progress)
                IN  PyInt(chars.num, chars.den)]
      [] OTHER                 -> AnimationState

RECURSIVE get_state(_, _)
RECURSIVE ParallelState(_, _, _)
RECURSIVE SequentialState(_, _, _, _)

\* Parallel.get_state: the loop over the first k animations
ParallelState(animations, k, time) ==
    IF k = 0 THEN AnimationState
    ELSE merge(ParallelState(animations, k - 1, time), get_state(animations[k], time))

\* Sequential.get_state: the loop from the k-th animation on
SequentialState(animations, k, elapsed, time) ==
    IF k > Len(animations)
    THEN (IF animations # <<>>
          THEN get_end_state(animations[Len(animations)])
          ELSE AnimationState)
    ELSE LET anim_duration == total_duration(animations[k])
         IN  IF time < elapsed + anim_duration
             THEN get_state(animations[k], time - elapsed)
             ELSE SequentialState(animations, k + 1, elapsed + anim_duration, time)

\* get_state of Animation, and its overrides
get_state(a, time) ==
    CASE a.type = "Parallel"   -> ParallelState(a.animations, Len(a.animations), time)
      [] a.type = "Sequential" -> SequentialState(a.animations, 1, 0, time)
      [] a.type \in {"Delay", "NoAnimation"} -> AnimationState
      [] OTHER ->
            IF time < a.delay THEN get_start_state(a)
            ELSE LET elapsed == time - a.delay
                 IN  IF elapsed >= a.duration THEN get_end_state(a)
                     ELSE interpolate(a, easing_fn(a.easing, Float(elapsed, a.duration)))

----------------------------------------------------------------------------
(* cli.main *)

NoResult == [returned |-> FALSE, success |-> FALSE, duration_num |-> 0, duration_den |-> 1]
Returned(success, num, den) ==
    [returned |-> TRUE, success |-> success, duration_num |-> num, duration_den |-> den]

NoArgs == [func |-> "none", volume |-> 0, intro_sound |-> FALSE, intro_duration |-> 0,
           outro_sound |-> FALSE, intro_title |-> FALSE, intro_clip_duration |-> 0,
           bg_music |-> FALSE, bg_music_volume |-> 0, end_screen |-> FALSE,
           end_screen_duration |-> 0]

\* main -> render_audio(...): intro_title is not a parameter of render_audio
AudioArgs(o) ==
    [func |-> "render_audio", volume |-> o.volume, intro_sound |-> o.intro_sound,
     intro_duration |-> o.intro_duration, outro_sound |-> o.outro_sound,
     intro_title |-> FALSE,
     intro_clip_duration |-> IF o.intro_title THEN o.intro_clip_duration ELSE 0,
     bg_music |-> o.bg_music, bg_music_volume |-> o.bg_music_volume,
     end_screen |-> FALSE,
     end_screen_duration |-> IF o.end_screen = "on" \/ o.outro_sound
                             THEN o.end_screen_duration ELSE 0]

\* main -> render_video(...)
VideoArgs(o) ==
    [func |-> "render_video", volume |-> o.volume, intro_sound |-> o.intro_sound,
     intro_duration |-> o.intro_duration, outro_sound |-> o.outro_sound,
     intro_title |-> o.intro_title,
     intro_clip_duration |-> o.intro_clip_duration,
     bg_music |-> o.bg_music, bg_music_volume |-> o.bg_music_volume,
     end_screen |-> IF o.end_screen # "unset" THEN o.end_screen = "on" ELSE o.outro_sound,
     end_screen_duration |-> o.end_screen_duration]

Main ==
    /\ pc = "main"
    /\ args' = IF opt.audio_only THEN AudioArgs(opt) ELSE VideoArgs(opt)
    /\ pc' = IF opt.audio_only THEN "render_audio" ELSE "render_video"
    /\ UNCHANGED <<opt, animvars, visualizer, graph, result, exc, framevars, loopvars, envvars>>

----------------------------------------------------------------------------
(* render_audio *)

RenderAudio ==
    /\ pc = "render_audio"
    /\ graph' = RenderAudioFilter(args, opt.duration)
    /\ \E returncode \in {0, 1} :
          result' = IF returncode # 0 THEN Returned(FALSE, 0, 1)
                    ELSE Returned(TRUE, TotalAudioDuration(args, opt.duration), 1)
    /\ pc' = "done"
    /\ UNCHANGED <<opt, animvars, visualizer, args, exc, framevars, loopvars, envvars>>

----------------------------------------------------------------------------
(* render_video *)

\* lines 455-488: np.array_split raises ValueError when there is no frame;
\* the visualizer is constructed once the features are there
AnalyzeAudio ==
    /\ pc = "render_video"
    /\ LET len_y     == NumSamples(opt.duration)
           amplitude == EnvelopeFrames(len_y, SampleRate, opt.fps)
           bands     == BandFrames(len_y, SampleRate, opt.fps)
           waveform  == EnvelopeFrames(len_y, SampleRate, opt.fps)
       IN  IF ArraySplitRaises(amplitude)
           THEN /\ exc' = "ValueError"
                /\ pc' = "raised"
                /\ UNCHANGED <<n_frames, visualizer>>
           ELSE /\ n_frames' = Min(amplitude, Min(bands, waveform))
                /\ \E seed \in (IF opt.style = "particles" THEN {0, 1} ELSE {0}) :
                      visualizer' = NewVisualizer(opt.style, seed)
                /\ pc' = "prepare_intro"
                /\ UNCHANGED exc
    /\ UNCHANGED <<opt, animvars, args, graph, result, intro_clip_frame_count, fade_duration_frames,
                   intro_clip_frames_list, total_frames, loopvars, envvars>>

\* lines 506-589
PrepareIntro ==
    /\ pc = "prepare_intro"
    /\ fade_duration_frames' = PyInt(opt.fps, 2)
    /\ IF args.intro_title
       THEN LET count == PyInt(args.intro_clip_duration * opt.fps, TicksPerSec)
            IN  /\ intro_clip_frame_count' = count
                /\ intro_clip_frames_list' =
                      IntroClipFrames(count, opt.intro_bg, opt.intro_static, opt.video_frames)
       ELSE /\ intro_clip_frame_count' = 0
            /\ intro_clip_frames_list' = <<>>
    /\ pc' = "build_cmd"
    /\ UNCHANGED <<opt, animvars, visualizer, args, graph, result, exc, n_frames, total_frames, loopvars, envvars>>

\* lines 591-757
BuildFfmpegCmd ==
    /\ pc = "build_cmd"
    /\ total_frames' = intro_clip_frame_count + n_frames
    /\ graph' = RenderVideoFilter(args, opt.duration)
    /\ pc' = "popen"
    /\ UNCHANGED <<opt, animvars, visualizer, args, result, exc, n_frames, intro_clip_frame_count,
                   fade_duration_frames, intro_clip_frames_list, loopvars, envvars>>

\* stdin_pipe: the frames in the pipe to the encoder's stdin; stderr_pipe: the
\* chunks of diagnostics in the pipe from its stderr; blocked: the encoder is
\* inside a write to a full stderr pipe
NoProcess ==
    [state |-> "none", stdin |-> "none", returncode |-> -1,
     stdin_pipe |-> 0, stderr_pipe |-> 0, blocked |-> FALSE]

NoFiles == [output |-> <<>>, temp |-> <<>>, cover |-> <<>>, thumbnail |-> FALSE]

\* lines 763-768: the encoder starts and creates the output file
Popen ==
    /\ pc = "popen"
    /\ process' = [NoProcess EXCEPT !.state = "running", !.stdin = "open"]
    /\ files' = [files EXCEPT !.output = <<"partial">>]
    /\ pc' = "subtitles"
    /\ UNCHANGED <<opt, animvars, visualizer, args, graph, result, exc, framevars, loopvars, post>>

\* lines 776-786
BuildSubtitleLookup ==
    /\ pc = "subtitles"
    /\ subtitle_lookup' = BuildLookup(opt.subtitles, Len(opt.subtitles), opt.fps,
                                      intro_clip_frame_count)
    /\ pc' = "thumbnail"
    /\ UNCHANGED <<opt, animvars, visualizer, args, graph, result, exc, framevars, i, written, write_calls,
                   envvars>>

\* lines 788-813: thumb_frame.copy() raises on an intro frame that is None
SaveThumbnail ==
    /\ pc = "thumbnail"
    /\ IF opt.thumbnail /\ intro_clip_frames_list # <<>>
          /\ ~intro_clip_frames_list[Min(PyInt(opt.fps * 2, 1),
                                         Len(intro_clip_frames_list) - 1) + 1].valid
       THEN /\ exc' = "AttributeError"
            /\ pc' = "raised"
            /\ UNCHANGED <<files, i, visualizer>>
       ELSE /\ files' = [files EXCEPT !.thumbnail = opt.thumbnail]
            /\ visualizer' = IF opt.thumbnail /\ intro_clip_frames_list = <<>>
                              THEN render_frame(visualizer, opt.signal, 0).visualizer
                              ELSE visualizer
            /\ i' = 0
            /\ pc' = "loop"
            /\ UNCHANGED exc
    /\ UNCHANGED <<opt, animvars, args, graph, result, framevars, subtitle_lookup, written,
                   write_calls, process, post>>

\* the encoder exits, closing its end of the pipe, before every frame is written;
\* process.returncode stays None until the process is waited for
EncoderExit ==
    /\ pc = "loop"
    /\ i < total_frames
    /\ process.state = "running"
    /\ process' = [process EXCEPT !.state = "exited"]
    /\ UNCHANGED <<opt, animvars, visualizer, pc, args, graph, result, exc, framevars, loopvars, files, post>>

\* variant: a BrokenPipeError is swallowed and the loop goes on
WriteFrame_IgnoresBrokenPipe ==
    /\ pc = "loop"
    /\ i < total_frames
    /\ visualizer' = VisualizerAfter(i)
    /\ LET frame == ComposeFrame(i)
       IN  IF ~frame.ok
           THEN /\ exc' = "AttributeError"
                /\ pc' = "raised"
                /\ UNCHANGED <<i, written, write_calls>>
           ELSE IF process.state # "running"
           THEN /\ write_calls' = write_calls + 1
                /\ i' = i + 1
                /\ UNCHANGED <<pc, exc, written>>
           ELSE /\ written' = Append(written, frame)
                /\ write_calls' = write_calls + 1
                /\ i' = i + 1
                /\ UNCHANGED <<pc, exc>>
    /\ UNCHANGED <<opt, animvars, args, graph, result, framevars, subtitle_lookup, envvars>>

\* lines 815-863: one pass of the frame loop
WriteFrame ==
    /\ pc = "loop"
    /\ i < total_frames
    /\ visualizer' = VisualizerAfter(i)
    /\ LET frame == ComposeFrame(i)
       IN  IF ~frame.ok
           THEN /\ exc' = "AttributeError"
                /\ pc' = "raised"
                /\ UNCHANGED <<i, written, write_calls>>
           ELSE IF process.state # "running"
           THEN /\ exc' = "BrokenPipeError"
                /\ pc' = "raised"
                /\ write_calls' = write_calls + 1
                /\ UNCHANGED <<i, written>>
           ELSE /\ written' = Append(written, frame)
                /\ write_calls' = write_calls + 1
                /\ i' = i + 1
                /\ UNCHANGED <<pc, exc>>
    /\ UNCHANGED <<opt, animvars, args, graph, result, framevars, subtitle_lookup, envvars>>

\* lines 865-871: stdin.close(), wait(), and the return code check
FinishEncode ==
    /\ pc = "loop"
    /\ i = total_frames
    /\ \E returncode \in {0, 1} :
          /\ process' = [process EXCEPT !.state = "exited", !.stdin = "closed",
                                         !.returncode = returncode]
          /\ IF returncode # 0
             THEN /\ result' = Returned(FALSE, 0, 1)
                  /\ pc' = "done"
                  /\ UNCHANGED files
             ELSE /\ files' = [files EXCEPT !.output = <<"video">>]
                  /\ pc' = "end_screen"
                  /\ UNCHANGED result
    /\ UNCHANGED <<opt, animvars, visualizer, args, graph, exc, framevars, loopvars, post>>

\* subprocess.run of a post-processing command that reads the output and writes
\* the temporary file: made says whether the command left a temporary file
RunCommand(f, temp, tag, returncode, made) ==
    [f EXCEPT ![temp] = IF ~made THEN <<>>
                        ELSE IF returncode = 0 THEN f.output \o <<tag>>
                        ELSE <<"partial">>]

\* variant: a failed command's temporary file is left behind
ReplaceOrCleanup_KeepsTemp(f, temp, returncode) ==
    IF returncode = 0
    THEN [f EXCEPT !.output = f[temp], ![temp] = <<>>]
    ELSE f

\* lines 902-910 and 933-938: os.replace on success, else unlink if it exists
ReplaceOrCleanup(f, temp, returncode) ==
    IF returncode = 0
    THEN [f EXCEPT !.output = f[temp], ![temp] = <<>>]
    ELSE IF f[temp] # <<>>
    THEN [f EXCEPT ![temp] = <<>>]
    ELSE f

\* lines 873-913; template_exists: templates/end_screen_{width}x{height}.mp4 is there
EndScreenConcat ==
    /\ pc = "end_screen"
    /\ \E template_exists \in BOOLEAN, returncode \in {0, 1}, made \in BOOLEAN :
          IF args.end_screen /\ template_exists
          THEN /\ returncode = 0 => made
               /\ files' = ReplaceOrCleanup(
                              RunCommand(files, "temp", "end_screen", returncode, made),
                              "temp", returncode)
               /\ post' = [post EXCEPT !.concat = returncode]
          ELSE UNCHANGED <<files, post>>
    /\ pc' = "cover"
    /\ UNCHANGED <<opt, animvars, visualizer, args, graph, result, exc, framevars, loopvars, process>>

\* lines 915-938
EmbedThumbnail ==
    /\ pc = "cover"
    /\ IF opt.thumbnail /\ files.thumbnail
       THEN \E returncode \in {0, 1}, made \in BOOLEAN :
               /\ returncode = 0 => made
               /\ files' = ReplaceOrCleanup(
                              RunCommand(files, "cover", "cover", returncode, made),
                              "cover", returncode)
               /\ post' = [post EXCEPT !.cover = returncode]
       ELSE UNCHANGED <<files, post>>
    /\ pc' = "return"
    /\ UNCHANGED <<opt, animvars, visualizer, args, graph, result, exc, framevars, loopvars, process>>

\* lines 940-945: return True, total_frames / fps + end_screen_sec
ReturnVideo ==
    /\ pc = "return"
    /\ LET end_screen_sec == IF args.end_screen THEN args.end_screen_duration ELSE 0
       IN  result' = Returned(TRUE, total_frames * TicksPerSec + end_screen_sec * opt.fps,
                              opt.fps)
    /\ pc' = "done"
    /\ UNCHANGED <<opt, animvars, visualizer, args, graph, exc, framevars, loopvars, envvars>>

----------------------------------------------------------------------------
(* Inputs *)

MaxFps == 4
MaxVideoFrames == 2
MaxMainSec == 2

\* no call on the animation values was made yet
NoCall == [op |-> "none", time |-> 0, self |-> AnimationState,
           other |-> AnimationState, third |-> AnimationState,
           state |-> AnimationState]

Sub(text, start_ms, end_ms) == [text |-> text, start_ms |-> start_ms, end_ms |-> end_ms]

\* the state every run starts in, for the given options
InitWith(o) ==
    /\ opt = o
    /\ pc = "main"
    /\ args = NoArgs
    /\ graph = NoGraph
    /\ result = NoResult
    /\ exc = "none"
    /\ n_frames = 0
    /\ intro_clip_frame_count = 0
    /\ fade_duration_frames = 0
    /\ intro_clip_frames_list = <<>>
    /\ total_frames = 0
    /\ subtitle_lookup = [f \in {} |-> ""]
    /\ i = 0
    /\ written = <<>>
    /\ write_calls = 0
    /\ process = NoProcess
    /\ files = NoFiles
    /\ post = [concat |-> -1, cover |-> -1]
    /\ visualizer = NoVisualizer
    /\ anim = NoAnimation
    /\ call = NoCall

\* options of the rendering runs: short inputs, every frame-loop feature.
\* Options the code does not read in a configuration are left at one value.
RenderOptions ==
    {o \in
      [audio_only : BOOLEAN,
       intro_title : BOOLEAN,
       intro_sound : BOOLEAN,
       outro_sound : BOOLEAN,
       bg_music : BOOLEAN,
       intro_duration : {Sec(3)},
       intro_clip_duration : {TicksPerSec \div 4, Sec(1) + HalfSec},
       end_screen : {"unset", "on"},
       end_screen_duration : {Sec(5)},
       volume : {100},
       bg_music_volume : {15},
       duration : {0, TicksPerSec \div 4, Sec(1), Sec(MaxMainSec)},
       fps : {1, 2, MaxFps},
       wave_sync : {-Sec(1), 0, HalfSec},
       subtitles : {<<>>, <<Sub("hi", 1000, 1500)>>,
                    <<Sub("a", 0, 600), Sub("b", 500, 1000)>>},
       thumbnail : BOOLEAN,
       intro_bg : {"none", "video"},
       intro_static : BOOLEAN,
       video_frames : 0..MaxVideoFrames,
       style : Styles,
       signal : {"silent", "steady", "rising"}] :
      /\ ~o.intro_title =>
            /\ o.intro_bg = "none"
            /\ ~o.intro_static
            /\ o.intro_clip_duration = Sec(1) + HalfSec
      /\ o.intro_bg = "none" => o.video_frames = 0
      /\ o.intro_bg = "video" => ~o.intro_static
      /\ o.audio_only =>
            /\ ~o.intro_title /\ ~o.thumbnail /\ o.subtitles = <<>>
            /\ o.wave_sync = 0 /\ o.fps = 1
            /\ o.style = "waveform"
      /\ (o.intro_sound \/ o.bg_music) =>
            /\ ~o.audio_only /\ ~o.thumbnail /\ o.wave_sync = 0
            /\ o.duration = Sec(1) /\ o.end_screen = "unset"
            /\ o.intro_bg = "none" /\ ~o.intro_static
            /\ o.style = "waveform"
      /\ o.signal # "steady" => o.style = "spectrum"
      /\ o.style # "waveform" =>
            /\ ~o.outro_sound /\ o.end_screen = "unset" /\ o.subtitles = <<>>
            /\ o.intro_bg = "none" /\ ~o.intro_static}

\* options of the mixing runs: every combination of sources, long and short inputs
MixOptions ==
    [audio_only : BOOLEAN,
     intro_title : BOOLEAN,
     intro_sound : BOOLEAN,
     outro_sound : BOOLEAN,
     bg_music : BOOLEAN,
     intro_duration : {Sec(3), Sec(5)},
     intro_clip_duration : {0, Sec(3), Sec(2) + 1},
     end_screen : {"unset", "on", "off"},
     end_screen_duration : {0, Sec(5)},
     volume : {100},
     bg_music_volume : {15},
     duration : {0, Sec(3), Sec(5), Sec(7), Sec(20), Sec(30), Sec(20) + 1},
     fps : {2},
     wave_sync : {0},
     subtitles : {<<>>},
     thumbnail : {FALSE},
     intro_bg : {"none"},
     intro_static : {FALSE},
     video_frames : {0},
     style : {"waveform"},
     signal : {"steady"}]

Init == \E o \in RenderOptions : InitWith(o)

InitMix == \E o \in MixOptions : InitWith(o)

Next ==
    \/ Main
    \/ RenderAudio
    \/ AnalyzeAudio
    \/ PrepareIntro
    \/ BuildFfmpegCmd
    \/ Popen
    \/ BuildSubtitleLookup
    \/ SaveThumbnail
    \/ EncoderExit
    \/ WriteFrame
    \/ FinishEncode
    \/ EndScreenConcat
    \/ EmbedThumbnail
    \/ ReturnVideo

\* the runs up to the point where the filter graph is handed to the encoder
NextMix ==
    \/ Main
    \/ RenderAudio
    \/ AnalyzeAudio
    \/ PrepareIntro
    \/ BuildFfmpegCmd

Spec == Init /\ [][Next]_vars

SpecMix == InitMix /\ [][NextMix]_vars

----------------------------------------------------------------------------
(* The frame loop and the encoder as two processes joined by the pipes of   *)
(* Popen(stdin=PIPE, stderr=PIPE): a write to a full pipe blocks, and       *)
(* render_video reads nothing from process.stderr.                          *)

StdinCapacity == 1
StderrCapacity == 2

\* lines 815-863, the write of line 863 blocking while the pipe is full
WriteFrameToPipe ==
    /\ pc = "loop"
    /\ i < total_frames
    /\ visualizer' = VisualizerAfter(i)
    /\ LET frame == ComposeFrame(i)
       IN  IF ~frame.ok
           THEN /\ exc' = "AttributeError"
                /\ pc' = "raised"
                /\ UNCHANGED <<i, written, write_calls, process>>
           ELSE IF process.state # "running"
           THEN /\ exc' = "BrokenPipeError"
                /\ pc' = "raised"
                /\ write_calls' = write_calls + 1
                /\ UNCHANGED <<i, written, process>>
           ELSE /\ process.stdin_pipe < StdinCapacity
                /\ process' = [process EXCEPT !.stdin_pipe = @ + 1]
                /\ written' = Append(written, frame)
                /\ write_calls' = write_calls + 1
                /\ i' = i + 1
                /\ UNCHANGED <<pc, exc>>
    /\ UNCHANGED <<opt, animvars, args, graph, result, framevars, subtitle_lookup, files, post>>

\* the encoder takes a frame from its stdin
EncoderRead ==
    /\ process.state = "running"
    /\ ~process.blocked
    /\ process.stdin_pipe > 0
    /\ process' = [process EXCEPT !.stdin_pipe = @ - 1]
    /\ UNCHANGED <<opt, animvars, visualizer, pc, args, graph, result, exc, framevars, loopvars,
                   files, post>>

\* the encoder writes a chunk of its banner, stream description or progress
\* line to stderr (the command has no -loglevel or -nostats)
EncoderLog ==
    /\ process.state = "running"
    /\ ~process.blocked
    /\ process' = IF process.stderr_pipe < StderrCapacity
                  THEN [process EXCEPT !.stderr_pipe = @ + 1]
                  ELSE [process EXCEPT !.blocked = TRUE]
    /\ UNCHANGED <<opt, animvars, visualizer, pc, args, graph, result, exc, framevars, loopvars,
                   files, post>>

\* line 865: process.stdin.close()
CloseStdin ==
    /\ pc = "loop"
    /\ i = total_frames
    /\ process' = [process EXCEPT !.stdin = "closed"]
    /\ pc' = "wait"
    /\ UNCHANGED <<opt, animvars, visualizer, args, graph, result, exc, framevars, loopvars,
                   files, post>>

\* the encoder reads the end of its input and exits
EncoderEof ==
    /\ process.state = "running"
    /\ ~process.blocked
    /\ process.stdin = "closed"
    /\ process.stdin_pipe = 0
    /\ process' = [process EXCEPT !.state = "exited"]
    /\ UNCHANGED <<opt, animvars, visualizer, pc, args, graph, result, exc, framevars, loopvars,
                   files, post>>

\* lines 866-871: process.wait() returns once the encoder has exited
WaitReturns ==
    /\ pc = "wait"
    /\ process.state = "exited"
    /\ \E returncode \in {0, 1} :
          /\ process' = [process EXCEPT !.returncode = returncode]
          /\ IF returncode # 0
             THEN /\ result' = Returned(FALSE, 0, 1)
                  /\ pc' = "done"
                  /\ UNCHANGED files
             ELSE /\ files' = [files EXCEPT !.output = <<"video">>]
                  /\ pc' = "end_screen"
                  /\ UNCHANGED result
    /\ UNCHANGED <<opt, animvars, visualizer, args, graph, exc, framevars, loopvars, post>>

\* the plain video renders
PipeOptions ==
    {o \in RenderOptions :
        /\ ~o.audio_only /\ ~o.intro_title /\ ~o.intro_sound /\ ~o.outro_sound
        /\ ~o.bg_music /\ o.end_screen = "unset" /\ o.wave_sync = 0
        /\ o.subtitles = <<>> /\ ~o.thumbnail /\ o.style = "waveform"}

InitPipe == \E o \in PipeOptions : InitWith(o)

\* render_video up to the return of process.wait(), with the encoder
NextPipe ==
    \/ Main
    \/ AnalyzeAudio
    \/ PrepareIntro
    \/ BuildFfmpegCmd
    \/ Popen
    \/ BuildSubtitleLookup
    \/ SaveThumbnail
    \/ WriteFrameToPipe
    \/ EncoderRead
    \/ EncoderLog
    \/ CloseStdin
    \/ EncoderEof
    \/ WaitReturns

SpecPipe == InitPipe /\ [][NextPipe]_vars

----------------------------------------------------------------------------
(* Calls on the animation values: the objects are built, evaluated at a     *)
(* time, and states are merged.                                             *)

MaxChars == 3
MaxQuarters == 10

Quarter == TicksPerSec \div 4

\* the times an animation is evaluated at
Times == {q * Quarter : q \in 0..MaxQuarters}

Durations == {0, HalfSec, Sec(1)}
Delays == {0, HalfSec}

\* every simple animation class with its default parameters and easing
Leaves ==
    {FadeIn(d, w, "out_quad") : d \in Durations, w \in Delays}
    \cup {FadeOut(d, w, "in_quad") : d \in Durations, w \in Delays}
    \cup {ScaleDown(d, w, Float(11, 10), Whole(1), "out_quad") : d \in Durations, w \in Delays}
    \cup {ScaleUp(d, w, Float(4, 5), Whole(1), "out_back") : d \in Durations, w \in Delays}
    \cup {SlideUp(d, w, 50, "out_cubic") : d \in Durations, w \in Delays}
    \cup {SlideDown(d, w, 50, "out_cubic") : d \in Durations, w \in Delays}
    \cup {Typewriter(d, w, MaxChars, "linear") : d \in Durations, w \in Delays}
    \cup {FadeIn(Sec(1), 0, "in_out_quad"), FadeOut(Sec(1), 0, "linear")}
    \cup {Delay(d) : d \in Durations}
    \cup {NoAnimation}

\* the children composites are built from (those of intro_title_animation and
\* slide_fade_animation among them)
Few ==
    {FadeIn(Sec(1), 0, "out_quad"), FadeIn(HalfSec, HalfSec, "out_quad"),
     FadeOut(HalfSec, 0, "in_quad"),
     ScaleDown(Sec(1), 0, Float(23, 20), Whole(1), "out_cubic"),
     SlideUp(HalfSec, 0, 50, "out_cubic"),
     Typewriter(Sec(1), 0, MaxChars, "linear"),
     Delay(HalfSec), NoAnimation}

Composites(lists) == {Parallel(l) : l \in lists} \cup {Sequential(l) : l \in lists}

ShortLists == {<<>>} \cup {<<a>> : a \in Few}

Lists == ShortLists \cup {<<a, b>> : a \in Few, b \in Few}

NestedLists ==
    {<<c>> : c \in Composites(ShortLists)}
    \cup {<<a, c>> : a \in Few, c \in Composites(ShortLists)}
    \cup {<<c, a>> : c \in Composites(ShortLists), a \in Few}

\* three children with the default easing, in every order
Trios ==
    LET fades == <<FadeIn(Sec(1), 0, "out_quad"), FadeIn(5 * Quarter, 0, "out_quad"),
                   FadeIn(7 * Quarter, 0, "out_quad")>>
        moves == <<SlideUp(5 * Quarter, 0, 50, "out_cubic"),
                   ScaleDown(7 * Quarter, 0, Float(11, 10), Whole(1), "out_quad"),
                   SlideDown(3 * Quarter, 0, 30, "out_quad")>>
        slides == <<SlideUp(5 * Quarter, 0, 50, "out_cubic"),
                    SlideDown(7 * Quarter, 0, 30, "out_quad"),
                    SlideUp(3 * Quarter, Quarter, 20, "linear")>>
    IN  {<<l[t[1]], l[t[2]], l[t[3]]>> :
            l \in {fades, moves, slides},
            t \in {u \in (1..3) \X (1..3) \X (1..3) : {u[1], u[2], u[3]} = 1..3}}

Animations ==
    Leaves \cup Composites(Lists) \cup Composites(NestedLists)
    \cup {Parallel(l) : l \in Trios}

\* the states merged with one another
OtherStates ==
    [opacity : {Rat(1, 2), Whole(1)}, scale : {Rat(5, 4)}, offset_x : {Whole(10)},
     offset_y : {Whole(-20), Whole(0)}, rotation : {Whole(0), Whole(90)},
     blur : {Whole(0), Whole(2)}, visible_chars : {-1, 0, 1, MaxChars}]

\* the states a merged state is merged with in turn
ThirdStates ==
    [opacity : {Float(1, 10)}, scale : {Float(11, 10), Float(3, 10)},
     offset_x : {Float(1, 3)}, offset_y : {Whole(0)}, rotation : {Float(7, 10)},
     blur : {Whole(1)}, visible_chars : {-1, 2}]
    \cup {AnimationState}

rendervars == <<opt, pc, args, graph, result, exc, framevars, loopvars, envvars,
                visualizer>>

\* an animation object is constructed
Construct ==
    /\ call.op = "none"
    /\ \E a \in Animations : anim' = a
    /\ call' = [NoCall EXCEPT !.op = "init"]
    /\ UNCHANGED rendervars

\* anim.get_state(time, fps); fps is not read by any get_state
GetStateCall ==
    /\ call.op \in {"init", "get_state"}
    /\ \E time \in Times :
          call' = [op |-> "get_state", time |-> time, self |-> AnimationState,
                   other |-> AnimationState, third |-> AnimationState,
                   state |-> get_state(anim, time)]
    /\ UNCHANGED <<rendervars, anim>>

\* self.merge(other)
MergeCall ==
    /\ call.op = "none"
    /\ \E self \in OtherStates, other \in OtherStates :
          call' = [op |-> "merge", time |-> 0, self |-> self, other |-> other,
                   third |-> AnimationState,
                   state |-> merge(self, other)]
    /\ UNCHANGED <<rendervars, anim>>

\* self.merge(other).merge(third)
MergeAgainCall ==
    /\ call.op = "merge"
    /\ \E third \in ThirdStates :
          call' = [call EXCEPT !.op = "merge_again", !.third = third,
                               !.state = merge(call.state, third)]
    /\ UNCHANGED <<rendervars, anim>>

InitAnim ==
    \E o \in RenderOptions :
        /\ o.audio_only /\ ~o.outro_sound /\ o.end_screen = "unset" /\ o.duration = 0
        /\ InitWith(o)

NextAnim ==
    \/ Construct
    \/ GetStateCall
    \/ MergeCall
    \/ MergeAgainCall

SpecAnim == InitAnim /\ [][NextAnim]_vars

----------------------------------------------------------------------------
(* Reading the emitted graph *)

GraphEmitted == graph.kind = "filter_complex"

HasStage(g, out) == \E k \in 1..Len(g.parts) : g.parts[k].out = out

StageOf(g, out) == g.parts[CHOOSE k \in 1..Len(g.parts) : g.parts[k].out = out]

\* the adelay of the stage that produces out, 0 when the stage has none
DelayMs(g, out) ==
    LET ops == StageOf(g, out).ops
        ds  == {j \in 1..Len(ops) : ops[j].name = "adelay"}
    IN  IF ds = {} THEN 0 ELSE ops[CHOOSE j \in ds : TRUE].v

\* every operation of every stage of the graph
AllOps(g) == {g.parts[k].ops[j] : <<k, j>> \in
                 {<<k, j>> \in (1..Len(g.parts)) \X (1..6) : j <= Len(g.parts[k].ops)}}

\* the intro clip's duration as configured on the command line (0 without a title)
ClipDuration == IF opt.intro_title THEN opt.intro_clip_duration ELSE 0

\* the end screen's duration as the renderer was given it
EndScreenSec ==
    IF args.func = "render_video"
    THEN (IF args.end_screen THEN args.end_screen_duration ELSE 0)
    ELSE args.end_screen_duration

Clamp(x, lo, hi) == IF x < lo THEN lo ELSE IF x > hi THEN hi ELSE x

\* the encoder was started and the subtitle lookup has been built
LookupBuilt == process.state # "none" /\ pc # "subtitles"

\* the thumbnail step is over and the frame loop was entered
LoopEntered == LookupBuilt /\ pc # "thumbnail" /\ files.thumbnail = opt.thumbnail

----------------------------------------------------------------------------
(* Claims *)

\* C1: in every configuration that emits a filter graph, the delay of the main
\* audio track is int(intro_clip_duration * 1000) plus, when an intro sound is
\* present, int(intro_sound_duration * 1000).
C1_MainDelayIncludesIntroSound ==
    GraphEmitted =>
        DelayMs(graph, "main") =
            ToMs(ClipDuration) + (IF opt.intro_sound THEN ToMs(opt.intro_duration) ELSE 0)

\* C2: whenever an outro sound is present its delay places its start 5 seconds
\* before the end of the main content, max(0, intro_clip_duration + main_duration - 5)
\* seconds, whatever the end-screen duration and the other sources.
C2_OutroStartsFiveBeforeMainEnd ==
    (GraphEmitted /\ HasStage(graph, "outro")) =>
        DelayMs(graph, "outro") = ToMs(Max(0, ClipDuration + opt.duration - Sec(5)))

C2_Witness ==
    /\ GraphEmitted /\ HasStage(graph, "outro")
    /\ opt.intro_title /\ opt.intro_clip_duration = Sec(3)
    /\ opt.duration = Sec(20)
    /\ EndScreenSec = Sec(5)
    /\ DelayMs(graph, "outro") = 18000

\* C3 as stated: with no intro clip and no intro sound, an outro and an end
\* screen of duration E, the outro starts at max(0, main_duration - E - 5).
C3_OutroStartMinusEndScreen ==
    (GraphEmitted /\ HasStage(graph, "outro") /\ ~opt.intro_title /\ ~opt.intro_sound) =>
        DelayMs(graph, "outro") = ToMs(Max(0, opt.duration - EndScreenSec - Sec(5)))

\* C3 amended: with no intro clip and no intro sound, an outro and an end screen
\* of duration E, the outro starts at max(0, main_duration - 5) whatever E is:
\* 15s for main=20s and E=5s, and 0 for main=5s.
C3_OutroStartIgnoresEndScreen ==
    (GraphEmitted /\ HasStage(graph, "outro") /\ ~opt.intro_title /\ ~opt.intro_sound) =>
        /\ DelayMs(graph, "outro") = ToMs(Max(0, opt.duration - Sec(5)))
        /\ opt.duration = Sec(20) => DelayMs(graph, "outro") = 15000
        /\ opt.duration <= Sec(5) => DelayMs(graph, "outro") = 0

C3_Witness ==
    /\ GraphEmitted /\ HasStage(graph, "outro") /\ ~opt.intro_title /\ ~opt.intro_sound
    /\ opt.duration = Sec(20)
    /\ EndScreenSec = Sec(5)
    /\ DelayMs(graph, "outro") = 15000

\* C4: no time value written into the filter graph is negative: every adelay,
\* every atrim end and every afade start is >= 0.
C4_NoNegativeTime ==
    GraphEmitted =>
        \A op \in AllOps(graph) :
            /\ op.name = "adelay" => op.v >= 0
            /\ op.name = "atrim" => op.d >= 0
            /\ op.name \in {"afade_in", "afade_out"} => op.st >= 0

\* C5: every frame written for an output index i in MainBody carries the data
\* index clamp(i - intro_clip_frames - sync_offset_frames, 0, n_frames - 1).
C5_DataIndexClamped ==
    \A k \in 1..Len(written) :
        written[k].idx >= intro_clip_frame_count =>
            /\ written[k].phase = "main"
            /\ written[k].data_idx =
                  Clamp(written[k].idx - intro_clip_frame_count
                          - PyInt(opt.wave_sync * opt.fps, TicksPerSec),
                        0, n_frames - 1)
            /\ (written[k].idx = intro_clip_frame_count /\ opt.wave_sync * opt.fps >= TicksPerSec)
                  => written[k].data_idx = 0
            /\ (written[k].idx = total_frames - 1 /\ opt.wave_sync < 0)
                  => written[k].data_idx = n_frames - 1

C5_Witness ==
    /\ Len(written) = total_frames
    /\ n_frames >= 2
    /\ intro_clip_frame_count >= 1
    /\ opt.wave_sync < 0
    /\ \E k \in 2..Len(written) :
          /\ k = total_frames
          /\ written[k].data_idx = n_frames - 1
          /\ written[k - 1].data_idx = n_frames - 1

\* C6: when the encoder accepts every write, the frames written to its stdin
\* are exactly the output indices 0 .. intro_clip_frames + n_frames - 1, each
\* once and in increasing order.
C6_EveryFrameWrittenInOrder ==
    (/\ pc \in {"raised", "done", "end_screen", "cover", "return"}
     /\ LoopEntered
     /\ exc # "BrokenPipeError"
     /\ ~(pc = "raised" /\ process.state = "exited")) =>
        /\ Len(written) = intro_clip_frame_count + n_frames
        /\ \A k \in 1..Len(written) : written[k].idx = k - 1

\* C7: for a single subtitle segment the output frame indices at which the
\* subtitle is active are exactly floor(start_ms*fps/1000) + intro_clip_frames ..
\* floor(end_ms*fps/1000) + intro_clip_frames.
C7_SubtitleRange ==
    (LookupBuilt /\ Len(opt.subtitles) = 1) =>
        LET sub   == opt.subtitles[1]
            first == (sub.start_ms * opt.fps) \div 1000 + intro_clip_frame_count
            last  == (sub.end_ms * opt.fps) \div 1000 + intro_clip_frame_count
        IN  /\ DOMAIN subtitle_lookup = first..last
            /\ \A k \in 1..Len(written) :
                  written[k].subtitle =
                      (IF first <= written[k].idx /\ written[k].idx <= last
                       THEN sub.text ELSE "")
            /\ DOMAIN BuildLookup(<<Sub("hi", 1000, 1500)>>, 1, 30, 90) = 120..135

C7_Witness ==
    /\ LookupBuilt /\ Len(opt.subtitles) = 1
    /\ intro_clip_frame_count >= 1
    /\ \E k \in 1..Len(written) : written[k].subtitle = "hi"
    /\ \E k \in 1..Len(written) :
          /\ written[k].subtitle = ""
          /\ written[k].idx > (1500 * opt.fps) \div 1000 + intro_clip_frame_count

\* C8: after the first write that hits the dead pipe the frame loop makes no
\* further write.
C8_NoWriteAfterBrokenPipe ==
    [][write_calls > Len(written) =>
          (write_calls' = write_calls /\ written' = written)]_vars

C8_Witness ==
    /\ exc = "BrokenPipeError"
    /\ process.state = "exited"
    /\ Len(written) >= 1
    /\ write_calls = Len(written) + 1
    /\ i + 1 < total_frames

\* C9: every encoder failure, a non-zero exit status after the loop or a broken
\* pipe during the loop, makes render_video return (False, 0), and neither
\* post-processing step is run.
C9_EncoderFailureReturnsFalse ==
    (/\ pc \in {"raised", "done"}
     /\ args.func = "render_video"
     /\ (exc = "BrokenPipeError" \/ process.returncode > 0)) =>
        /\ result = Returned(FALSE, 0, 1)
        /\ post = [concat |-> -1, cover |-> -1]

\* C10: when a post-processing command fails, its temporary file does not exist
\* afterwards and the output is as it was before the step; the output changes
\* only when the command succeeded, and then it becomes the temporary file.
C10_PostStepAtomic ==
    [][/\ (pc = "end_screen" /\ pc' # pc) =>
             /\ post'.concat # 0 => (files'.output = files.output /\ files'.temp = <<>>)
             /\ files'.output # files.output =>
                   (post'.concat = 0 /\ files'.output = files.output \o <<"end_screen">>)
       /\ (pc = "cover" /\ pc' # pc) =>
             /\ post'.cover # 0 => (files'.output = files.output /\ files'.cover = <<>>)
             /\ files'.output # files.output =>
                   (post'.cover = 0 /\ files'.output = files.output \o <<"cover">>)
      ]_vars

C10_Witness ==
    /\ pc = "return"
    /\ post.concat = 1
    /\ post.cover = 1
    /\ files.output = <<"video">>
    /\ files.temp = <<>> /\ files.cover = <<>>

\* the intro clip was prepared by render_video from a video background that
\* yields fewer frames than the clip needs
ShortIntroVideo ==
    /\ args.func = "render_video"
    /\ pc \notin {"main", "render_video", "prepare_intro"}
    /\ args.intro_title
    /\ opt.intro_bg = "video"
    /\ opt.video_frames < intro_clip_frame_count

\* C11: when the intro background video yields k < intro_clip_frames decoded
\* frames (k = 0 included), the prepared intro clip has exactly
\* intro_clip_frames entries, each a usable frame, the entries from index k on
\* repeating the last decoded frame, and the render does not fail over it.
C11_ShortIntroVideoPadded ==
    ShortIntroVideo =>
        LET k == opt.video_frames
        IN  /\ Len(intro_clip_frames_list) = intro_clip_frame_count
            /\ \A j \in 1..intro_clip_frame_count :
                  /\ intro_clip_frames_list[j].valid
                  /\ j > k => (k > 0 /\ intro_clip_frames_list[j] = intro_clip_frames_list[k])
            /\ exc # "AttributeError"

MaxOf(S) == IF S = {} THEN 0 ELSE CHOOSE m \in S : \A x \in S : x <= m

RECURSIVE SeqSum(_)
SeqSum(s) == IF s = <<>> THEN 0 ELSE s[1] + SeqSum(Tail(s))

\* the duration attributes of the children of the constructed animation
ChildDurations == [k \in 1..Len(anim.animations) |-> anim.animations[k].duration]

\* delay + duration of each child of the constructed animation
ChildSpans ==
    [k \in 1..Len(anim.animations) |->
        anim.animations[k].delay + anim.animations[k].duration]

\* C13 as stated: a Parallel's duration attribute and total_duration() are the
\* maximum of its children's durations, a Sequential's duration is their sum,
\* and an empty Parallel or Sequential has duration 0.
C13_DurationOfChildDurations ==
    call.op # "none" =>
        /\ anim.type = "Parallel" =>
              /\ anim.duration = MaxOf({ChildDurations[k] : k \in DOMAIN ChildDurations})
              /\ total_duration(anim) = anim.duration
        /\ anim.type = "Sequential" =>
              /\ anim.duration = SeqSum(ChildDurations)
              /\ total_duration(anim) = anim.duration
        /\ (anim.type \in {"Parallel", "Sequential"} /\ anim.animations = <<>>) =>
              anim.duration = 0

\* C13 amended: a Parallel's duration attribute and total_duration() are the
\* maximum over its children of delay + duration, a Sequential's are the sum
\* over its children of delay + duration, and an empty Parallel or Sequential
\* has duration 0.
C13_DurationOfChildSpans ==
    call.op # "none" =>
        /\ anim.type = "Parallel" =>
              /\ anim.duration = MaxOf({ChildSpans[k] : k \in DOMAIN ChildSpans})
              /\ total_duration(anim) = anim.duration
        /\ anim.type = "Sequential" =>
              /\ anim.duration = SeqSum(ChildSpans)
              /\ total_duration(anim) = anim.duration
        /\ (anim.type \in {"Parallel", "Sequential"} /\ anim.animations = <<>>) =>
              anim.duration = 0

C13_Witness ==
    /\ call.op = "init"
    /\ anim.type = "Sequential"
    /\ Len(anim.animations) = 2
    /\ anim.animations[1].delay = HalfSec /\ anim.animations[1].duration = HalfSec
    /\ anim.animations[2].type = "Parallel" /\ anim.animations[2].duration = Sec(1)
    /\ anim.duration = Sec(2)

\* the fraction r is the product, the sum, the larger of the fractions a and b
IsProduct(r, a, b) == r.num * a.den * b.den = a.num * b.num * r.den

IsSum(r, a, b) == r.num * a.den * b.den = (a.num * b.den + b.num * a.den) * r.den

IsLarger(r, a, b) == r \in {a, b} /\ ~RLess(r, a) /\ ~RLess(r, b)

\* every field of a merge's result but visible_chars
MergedFields(r, a, b) ==
    /\ IsProduct(r.opacity, a.opacity, b.opacity)
    /\ IsProduct(r.scale, a.scale, b.scale)
    /\ IsSum(r.offset_x, a.offset_x, b.offset_x)
    /\ IsSum(r.offset_y, a.offset_y, b.offset_y)
    /\ IsSum(r.rotation, a.rotation, b.rotation)
    /\ IsLarger(r.blur, a.blur, b.blur)

\* C14 as stated: merge(a, b) multiplies opacity and scale, adds the offsets and
\* the rotation, takes the larger blur, and gives visible_chars the smaller
\* bound when both are bounded (>= 0) and -1, unbounded, when either side is
\* unbounded.
C14_MergeUnboundedWhenEitherIs ==
    call.op = "merge" =>
        /\ MergedFields(call.state, call.self, call.other)
        /\ call.state.visible_chars =
              IF call.self.visible_chars >= 0 /\ call.other.visible_chars >= 0
              THEN Min(call.self.visible_chars, call.other.visible_chars)
              ELSE -1

\* C14 amended: merge(a, b) multiplies opacity and scale, adds the offsets and
\* the rotation, takes the larger blur, and gives visible_chars the smaller
\* bound when both are bounded (>= 0), the bound of the bounded side when
\* exactly one side is bounded, and -1 when both sides are unbounded.
C14_MergeKeepsTheBoundedSide ==
    call.op = "merge" =>
        /\ MergedFields(call.state, call.self, call.other)
        /\ call.state.visible_chars =
              IF call.self.visible_chars >= 0 /\ call.other.visible_chars >= 0
              THEN Min(call.self.visible_chars, call.other.visible_chars)
              ELSE IF call.self.visible_chars >= 0 THEN call.self.visible_chars
              ELSE IF call.other.visible_chars >= 0 THEN call.other.visible_chars
              ELSE -1

C14_Witness ==
    /\ call.op = "merge"
    /\ call.self.visible_chars = -1
    /\ call.other.visible_chars = MaxChars
    /\ call.self.blur # call.other.blur
    /\ call.state.visible_chars = MaxChars
    /\ call.state.opacity = Rat(1, 4)
    /\ call.state.offset_y = Whole(-40)
    /\ call.state.rotation = Whole(90)

\* C15: for every sample count, sample rate and fps, fps that do not divide the
\* sample rate included, get_amplitude_envelope returns exactly
\* floor(total_samples / (sample_rate / fps)) frames, sample_rate / fps being the
\* exact quotient, and raises no error.
C15_EnvelopeFrameCount ==
    (args.func = "render_video" /\ pc \notin {"main", "render_video"}) =>
        /\ exc # "ValueError"
        /\ n_frames = (NumSamples(opt.duration) * opt.fps) \div SampleRate

\* the k-th written frame shows an image drawn by visualizer.render_frame
Rendered(k) == written[k].phase \in {"fade", "main"}

\* what a visualizer on which render_frame was never called draws for the data
\* index of the k-th written frame
FreshImage(k) ==
    render_frame(NewVisualizer(opt.style, visualizer.seed), opt.signal,
                 written[k].data_idx).img

\* render_frame calls made for the thumbnail, before the frame loop
ThumbnailRenders == IF opt.thumbnail /\ intro_clip_frames_list = <<>> THEN 1 ELSE 0

\* render_frame calls made up to and with the k-th written frame
RenderCalls(k) == ThumbnailRenders + Cardinality({j \in 1..k : Rendered(j)})

\* the peak the spectrum visualizer holds when the k-th written frame is drawn
HeldPeak(k) ==
    IF k > 1 /\ Rendered(k - 1) THEN written[k - 1].vis.peak
    ELSE IF k = 1 /\ ThumbnailRenders = 1
    THEN render_frame(NewVisualizer(opt.style, visualizer.seed), opt.signal, 0).img.peak
    ELSE 0

ClipFrames == IF args.intro_title THEN (args.intro_clip_duration * opt.fps) \div TicksPerSec ELSE 0

FadeFrames == opt.fps \div 2

\* C17: every output frame index i in [0, intro_clip_frames + n_frames) is in
\* exactly one phase: FadeTransition iff an intro clip is configured and
\* intro_clip_frames - fade_frames <= i < intro_clip_frames, IntroClip iff an
\* intro clip is configured and 0 <= i < intro_clip_frames - fade_frames,
\* MainBody iff i >= intro_clip_frames; with no intro clip every index is MainBody.
C17_PhasePartition ==
    pc = "loop" =>
        /\ total_frames = ClipFrames + n_frames
        /\ \A idx \in 0..(ClipFrames + n_frames - 1) :
              LET phase == ComposeFrame(idx).phase
              IN  /\ phase \in {"fade", "intro", "main"}
                  /\ phase = "fade" <=>
                        (args.intro_title /\ ClipFrames - FadeFrames <= idx /\ idx < ClipFrames)
                  /\ phase = "intro" <=>
                        (args.intro_title /\ 0 <= idx /\ idx < ClipFrames - FadeFrames)
                  /\ phase = "main" <=> idx >= ClipFrames
                  /\ ~args.intro_title => phase = "main"
        /\ \A k \in 1..Len(written) : written[k].phase = ComposeFrame(written[k].idx).phase

C17_Witness ==
    /\ pc = "loop"
    /\ i = total_frames
    /\ FadeFrames >= 2
    /\ ClipFrames > FadeFrames
    /\ \E k \in 1..Len(written) : written[k].phase = "intro" /\ written[k].idx = ClipFrames - FadeFrames - 1
    /\ \E k \in 1..Len(written) : written[k].phase = "fade" /\ written[k].idx = ClipFrames - FadeFrames
    /\ \E k \in 1..Len(written) : written[k].phase = "main" /\ written[k].idx = ClipFrames

\* C18: in the fade transition alpha ramps linearly from 0 to 1 across
\* fade_frames, for every intro_clip_frames and fps (an intro clip shorter than
\* the fade and floor(0.5*fps) = 0 included): the first blended frame has alpha
\* exactly 0, alpha grows by 1/fade_frames per frame, stays within [0, 1), and
\* there is no division by zero.
C18_AlphaRampsFromZero ==
    \A k \in 1..Len(written) :
        written[k].phase = "fade" =>
            /\ written[k].alpha_den = FadeFrames
            /\ written[k].alpha_den > 0
            /\ 0 <= written[k].alpha_num /\ written[k].alpha_num < written[k].alpha_den
            /\ (k = 1 \/ written[k - 1].phase # "fade") => written[k].alpha_num = 0
            /\ (k > 1 /\ written[k - 1].phase = "fade") =>
                  written[k].alpha_num = written[k - 1].alpha_num + 1

\* the segment covers output frame f
Covers(sub, f) ==
    /\ (sub.start_ms * opt.fps) \div 1000 + intro_clip_frame_count <= f
    /\ f <= (sub.end_ms * opt.fps) \div 1000 + intro_clip_frame_count

\* the lookup holds, for every frame some segment covers, the text of the first
\* such segment in input order, and the written frames show it
FirstWriterWins ==
    /\ \A f \in DOMAIN subtitle_lookup :
          \E k \in 1..Len(opt.subtitles) :
              /\ Covers(opt.subtitles[k], f)
              /\ \A j \in 1..(k - 1) : ~Covers(opt.subtitles[j], f)
              /\ subtitle_lookup[f] = opt.subtitles[k].text
    /\ \A k \in 1..Len(written) :
          written[k].subtitle =
              IF written[k].idx \in DOMAIN subtitle_lookup
              THEN subtitle_lookup[written[k].idx] ELSE ""
    /\ \A k \in 1..Len(opt.subtitles), f \in 0..total_frames :
          Covers(opt.subtitles[k], f) => f \in DOMAIN subtitle_lookup

\* C19: when several subtitle segments cover the same output frame, the text
\* shown there is that of the first such segment in input order; processing a
\* later segment never changes an entry an earlier segment claimed, and the
\* lookup is never modified once the frame loop has started.
C19_FirstSegmentWins ==
    [][/\ LookupBuilt' => FirstWriterWins'
       /\ \A k \in 1..(Len(opt.subtitles) - 1) :
             LET before == BuildLookup(opt.subtitles, k, opt.fps, intro_clip_frame_count)
                 after  == BuildLookup(opt.subtitles, k + 1, opt.fps,
                                       intro_clip_frame_count)
             IN  \A f \in DOMAIN before : after[f] = before[f]
       /\ LoopEntered => subtitle_lookup' = subtitle_lookup
      ]_vars

C19_Witness ==
    /\ LoopEntered
    /\ Len(opt.subtitles) = 2
    /\ \E k \in 1..Len(written) :
          /\ Covers(opt.subtitles[1], written[k].idx)
          /\ Covers(opt.subtitles[2], written[k].idx)
          /\ written[k].subtitle = opt.subtitles[1].text
    /\ \E k \in 1..Len(written) :
          /\ ~Covers(opt.subtitles[1], written[k].idx)
          /\ written[k].subtitle = opt.subtitles[2].text

\* the time at which the k-th child's span starts: the sum of the total
\* durations (delay + duration) of the children before it
SpanStart(k) ==
    SeqSum([j \in 1..(k - 1) |->
               anim.animations[j].delay + anim.animations[j].duration])

SpanEnd(k) == SpanStart(k) + anim.animations[k].delay + anim.animations[k].duration

\* C20: for every Sequential over children c1..cn and every time t >= 0: before
\* the total duration get_state evaluates exactly one child, the unique ck whose
\* span [sum of earlier children's durations, that sum + ck's duration) contains
\* t, at local time t minus the durations of the prior children; at or after the
\* total duration it returns the state the last child itself reaches at the end
\* of its span, also when the last child is a Parallel or Sequential.
C20_SequentialDispatch ==
    (call.op = "get_state" /\ anim.type = "Sequential") =>
        LET n == Len(anim.animations)
            t == call.time
        IN  /\ t < anim.duration =>
                  /\ Cardinality({k \in 1..n : SpanStart(k) <= t /\ t < SpanEnd(k)}) = 1
                  /\ \A k \in 1..n :
                        (SpanStart(k) <= t /\ t < SpanEnd(k)) =>
                            call.state = get_state(anim.animations[k], t - SpanStart(k))
            /\ (t >= anim.duration /\ n > 0) =>
                  call.state = get_state(anim.animations[n], SpanEnd(n) - SpanStart(n))

----------------------------------------------------------------------------
(* Claims on the shape of the emitted graph *)

\* the stages that read an ffmpeg input: one per source
SourceStages(g) ==
    {k \in 1..Len(g.parts) : \E j \in 1..Len(g.parts[k].ins) : g.parts[k].ins[j].idx >= 0}

\* the stages that mix
MixStages(g) ==
    {k \in 1..Len(g.parts) :
        \E j \in 1..Len(g.parts[k].ops) :
            g.parts[k].ops[j].name \in {"amix_longest", "amix_first"}}

\* the operations of the stage appear in the relative order of the list, each
\* at most once, and no other operation appears
InOrder(ops, order) ==
    /\ \A j \in 1..Len(ops) : \E p \in 1..Len(order) : order[p] = ops[j].name
    /\ \A a, b \in 1..Len(ops) :
          a < b => \A p, q \in 1..Len(order) :
                      (order[p] = ops[a].name /\ order[q] = ops[b].name) => p < q

StatedOrder == <<"dynaudnorm", "volume", "atrim", "afade_in", "afade_out", "adelay">>

BgmOrder == <<"atrim", "volume", "afade_in", "afade_out", "adelay">>

\* every mixing stage reads two streams that earlier stages produced, and a
\* per-source stage reads its one ffmpeg input and nothing mixed
MixingAfterSources(g) ==
    /\ \A k \in SourceStages(g) : Len(g.parts[k].ins) = 1 /\ k \notin MixStages(g)
    /\ \A k \in MixStages(g) :
          \A j \in 1..Len(g.parts[k].ins) :
              /\ g.parts[k].ins[j].idx = -1
              /\ \E e \in 1..(k - 1) : g.parts[e].out = g.parts[k].ins[j].label

\* the compressor is the last operation of the last stage, which produces
\* [aout], and it is nowhere else
CompressorLast(g) ==
    LET n == Len(g.parts)
    IN  /\ g.parts[n].out = "aout"
        /\ g.parts[n].ops[Len(g.parts[n].ops)] = Acompressor
        /\ \A k \in 1..n : \A j \in 1..Len(g.parts[k].ops) :
              g.parts[k].ops[j].name = "acompressor" =>
                  (k = n /\ j = Len(g.parts[n].ops))

\* C21 as stated: in every per-source stage of the emitted graph (main, intro
\* sound, outro sound, background music) the operations that are present appear
\* in the order loudness normalization, gain, trim, fade-in, fade-out, delay;
\* mixing comes after the per-source stages and the compressor is the last
\* operation before the output label.
C21_StagesInStatedOrder ==
    GraphEmitted =>
        /\ \A k \in SourceStages(graph) : InOrder(graph.parts[k].ops, StatedOrder)
        /\ MixingAfterSources(graph)
        /\ CompressorLast(graph)

\* C21 amended: in the main, intro-sound and outro-sound stages the operations
\* that are present appear in the order loudness normalization, gain, trim,
\* fade-in, fade-out, delay; the background-music stage has no normalization and
\* its order is trim, gain, fade-in, fade-out, delay; mixing comes after the
\* per-source stages and the compressor is the last operation before the output
\* label.
C21_StagesInOrderBgmTrimFirst ==
    GraphEmitted =>
        /\ \A k \in SourceStages(graph) :
              IF graph.parts[k].out = "bgm"
              THEN InOrder(graph.parts[k].ops, BgmOrder)
                   /\ Len(graph.parts[k].ops) = Len(BgmOrder)
              ELSE InOrder(graph.parts[k].ops, StatedOrder)
        /\ MixingAfterSources(graph)
        /\ CompressorLast(graph)

C21_Witness ==
    /\ GraphEmitted
    /\ args.func = "render_video"
    /\ HasStage(graph, "intro") /\ HasStage(graph, "outro") /\ HasStage(graph, "bgm")
    /\ Len(StageOf(graph, "outro").ops) = Len(StatedOrder)
    /\ Cardinality(SourceStages(graph)) = 4
    /\ Cardinality(MixStages(graph)) = 3

\* the operation of the given name in the stage that produces out
OpOf(g, out, name) ==
    LET ops == StageOf(g, out).ops
    IN  ops[CHOOSE j \in 1..Len(ops) : ops[j].name = name]

\* C22: whenever background music is present, with an outro and without, its
\* fade-in starts at 0 and lasts 3s, and its 3s fade-out starts exactly 3 seconds
\* before the point where the track is cut: max(0, trim end - 3).
C22_BgmFadeOutThreeBeforeCut ==
    (GraphEmitted /\ HasStage(graph, "bgm")) =>
        /\ OpOf(graph, "bgm", "afade_in") = AfadeIn(0, Sec(3))
        /\ OpOf(graph, "bgm", "afade_out").d = Sec(3)
        /\ OpOf(graph, "bgm", "afade_out").st =
              Max(0, OpOf(graph, "bgm", "atrim").d - Sec(3))

Reads(g) ==
    {r \in (1..Len(g.parts)) \X (1..2) : r[2] <= Len(g.parts[r[1]].ins)}

\* the file a per-source stage is meant to read
SourceOf(out) ==
    CASE out = "main"  -> "input_audio"
      [] out = "intro" -> "intro_sound"
      [] out = "outro" -> "outro_sound"
      [] out = "bgm"   -> "bg_music"
      [] OTHER         -> "none"

\* C25: in each of the combinations of (intro clip, intro sound, outro sound,
\* background music) in which a filter graph is emitted, the graph is well-formed:
\* every label that is consumed is produced by exactly one earlier stage, every
\* produced label other than [aout] is consumed exactly once, [aout] is produced
\* exactly once and is the mapped output, every mix stage has exactly two inputs,
\* and the input index of each source is that source's position in the
\* encoder's input list.
C25_GraphWellFormed ==
    GraphEmitted =>
        LET n == Len(graph.parts)
        IN  /\ \A r \in Reads(graph) :
                  LET in == graph.parts[r[1]].ins[r[2]]
                  IN  in.idx = -1 =>
                         /\ Cardinality({e \in 1..n : graph.parts[e].out = in.label}) = 1
                         /\ \E e \in 1..(r[1] - 1) : graph.parts[e].out = in.label
            /\ \A k \in 1..n :
                  Cardinality({r \in Reads(graph) :
                                  graph.parts[r[1]].ins[r[2]] = Lbl(graph.parts[k].out)})
                      = (IF graph.parts[k].out = "aout" THEN 0 ELSE 1)
            /\ Cardinality({k \in 1..n : graph.parts[k].out = "aout"}) = 1
            /\ graph.map[Len(graph.map)] = "[aout]"
            /\ Cardinality({m \in 1..Len(graph.map) : graph.map[m] = "[aout]"}) = 1
            /\ \A k \in MixStages(graph) :
                  /\ Len(graph.parts[k].ins) = 2
                  /\ \A j \in 1..Len(graph.parts[k].ops) :
                        graph.parts[k].ops[j].name \in {"amix_longest", "amix_first"}
                            => graph.parts[k].ops[j].v = 2
            /\ \A k \in SourceStages(graph) :
                  /\ Len(graph.parts[k].ins) = 1
                  /\ graph.parts[k].ins[1].idx + 1 \in 1..Len(graph.inputs)
                  /\ graph.inputs[graph.parts[k].ins[1].idx + 1] = SourceOf(graph.parts[k].out)
            /\ \A k \in 1..Len(graph.inputs) :
                  graph.inputs[k] # "-" =>
                      \E e \in SourceStages(graph) : graph.parts[e].ins[1].idx = k - 1

\* the sources of the options that lead to a graph: <<clip, intro, outro, music>>
Combination ==
    <<opt.intro_title /\ opt.intro_clip_duration > 0, opt.intro_sound, opt.outro_sound,
      opt.bg_music>>

C25_Witness ==
    /\ GraphEmitted
    /\ args.func = "render_video"
    /\ Combination = <<TRUE, FALSE, TRUE, TRUE>>
    /\ graph.inputs = <<"-", "input_audio", "outro_sound", "bg_music">>
    /\ StageOf(graph, "bgm").ins = <<In(3)>>
    /\ Len(graph.parts) = 5

\* C26: for every audio source stage of the emitted graph (intro sound, outro
\* sound, background music) and all non-negative durations, the fade-out lies
\* inside the source's trim window: fade-out start + fade-out length <= trim end.
C26_FadeOutInsideTrim ==
    GraphEmitted =>
        \A out \in {"intro", "outro", "bgm"} :
            HasStage(graph, out) =>
                OpOf(graph, out, "afade_out").st + OpOf(graph, out, "afade_out").d
                    <= OpOf(graph, out, "atrim").d

\* the renderer has put its encoder command together
GraphBuilt == graph.inputs # <<>>

\* what the other mode builds for the same options
OtherModeGraph ==
    IF args.func = "render_video"
    THEN RenderAudioFilter(AudioArgs(opt), opt.duration)
    ELSE RenderVideoFilter(VideoArgs(opt), opt.duration)

\* the audio mix of a command: the filter kind, the plain volume, and per stage
\* the operations (gain, delay, trim window, fade starts and lengths) and the
\* label; the input numbering, which the video stream shifts by one, left out
MixTiming(g) ==
    [kind |-> g.kind, volume |-> g.volume,
     stages |-> [k \in 1..Len(g.parts) |->
                    [ops |-> g.parts[k].ops, out |-> g.parts[k].out]]]

\* C27: for the same command-line options, audio-only mode and video mode build
\* the same audio mix timing: the same delay, trim window, fade start and length
\* and gain for every source, for every combination of intro title, intro sound,
\* outro, background music, intro_clip_duration and end-screen flag.
C27_AudioOnlyMixEqualsVideoMix ==
    GraphBuilt => MixTiming(graph) = MixTiming(OtherModeGraph)

----------------------------------------------------------------------------
(* Claims on the frame loop's indices and clocks *)

\* the data indices the step about to be taken passes to visualizer.render_frame:
\* the thumbnail step without an intro clip, a fade-transition frame, a main frame
PassedIndices ==
    IF pc = "thumbnail"
    THEN (IF opt.thumbnail /\ intro_clip_frames_list = <<>> THEN {0} ELSE {})
    ELSE IF pc = "loop" /\ i < total_frames
    THEN (IF ComposeFrame(i).phase = "intro" THEN {} ELSE {ComposeFrame(i).data_idx})
    ELSE {}

\* C28: every data index passed to a visualizer's render_frame during a render,
\* from the thumbnail step, from the fade transition (which renders index 0) and
\* from the main body, lies in [0, n_frames - 1], in every configuration; audio
\* so short that it has no frame never gets as far as a render_frame call.
C28_RenderIndexInRange ==
    /\ \A d \in PassedIndices : 0 <= d /\ d <= n_frames - 1
    /\ \A k \in 1..Len(written) :
          Rendered(k) => (0 <= written[k].data_idx /\ written[k].data_idx <= n_frames - 1)
    /\ (PassedIndices # {} \/ written # <<>>) => n_frames >= 1

C28_Witness ==
    /\ pc = "loop"
    /\ n_frames = 1
    /\ opt.wave_sync < 0
    /\ intro_clip_frame_count >= 1
    /\ PassedIndices = {0}
    /\ \E k \in 1..Len(written) : written[k].phase = "fade" /\ written[k].data_idx = 0

\* the first output index of the main body
MainBodyStart == intro_clip_frame_count

\* the delay of the main audio track in the encoder command, in milliseconds
MainAudioDelayMs == IF GraphEmitted THEN DelayMs(graph, "main") ELSE 0

----------------------------------------------------------------------------
(* Claims on the algebra of merge *)

RAbs(a) == [num |-> Abs(a.num), den |-> a.den]

\* the states the property speaks of
InDomain(s) == ~RLess(s.blur, Whole(0)) /\ s.visible_chars >= -1

\* x and y are no further apart than k roundings of a value of size mag on
\* either side leave them
WithinRounding(x, y, mag, k) ==
    LET diff == QMul(RAbs(QAdd(x, RNeg(y))), Whole(Pow2(MantissaBits)))
        room == QMul(Whole(2 * k + 1), mag)
    IN  ~RLess(room, diff)

RECURSIVE SumOfSizes(_, _, _)
SumOfSizes(ss, f, k) ==
    IF k = 0 THEN Whole(0) ELSE QAdd(SumOfSizes(ss, f, k - 1), RAbs(ss[k][f]))

\* x and y merge the states ss in two groupings or in two orders: the maxima
\* and minima agree, the products and sums agree but for their roundings
EqualUpToRounding(x, y, ss) ==
    /\ x.blur = y.blur
    /\ x.visible_chars = y.visible_chars
    /\ \A f \in {"opacity", "scale"} :
          WithinRounding(x[f], y[f], RAbs(x[f]), Max(Len(ss) - 1, 0))
    /\ \A f \in {"offset_x", "offset_y", "rotation"} :
          WithinRounding(x[f], y[f], SumOfSizes(ss, f, Len(ss)), Max(Len(ss) - 1, 0))

\* the same children in every order
Reorderings(animations) ==
    LET n == Len(animations)
    IN  {[k \in 1..n |-> animations[p[k]]] :
            p \in {q \in [1..n -> 1..n] : \A j, k \in 1..n : q[j] = q[k] => j = k}}

Commutes ==
    call.op = "merge" /\ InDomain(call.self) /\ InDomain(call.other)
        => call.state = merge(call.other, call.self)

\* a merged state is merged with a third one
MergedAgain ==
    /\ call.op = "merge_again"
    /\ InDomain(call.self) /\ InDomain(call.other) /\ InDomain(call.third)

HasIdentity ==
    MergedAgain /\ call.third = AnimationState
        => /\ call.state = merge(call.self, call.other)
           /\ merge(AnimationState, call.other) = call.other

Associates ==
    MergedAgain => call.state = merge(call.self, merge(call.other, call.third))

AssociatesUpToRounding ==
    MergedAgain
        => EqualUpToRounding(call.state,
                             merge(call.self, merge(call.other, call.third)),
                             <<call.self, call.other, call.third>>)

ParallelCalled == call.op = "get_state" /\ anim.type = "Parallel"

OrderFree ==
    ParallelCalled
        => \A l \in Reorderings(anim.animations) :
              get_state(Parallel(l), call.time) = call.state

OrderFreeUpToRounding ==
    ParallelCalled
        => \A l \in Reorderings(anim.animations) :
              LET other == get_state(Parallel(l), call.time)
                  ss == [k \in 1..Len(l) |-> get_state(l[k], call.time)]
              IN  /\ EqualUpToRounding(call.state, other, ss)
                  /\ Len(l) <= 2 => other = call.state

\* C30 (as stated): merge is commutative and associative and has
\* AnimationState() as its identity over the states with blur >= 0 and
\* visible_chars >= -1, and the state Parallel.get_state returns is the same
\* for every order of its children.
C30_MergeAlgebraExact == Commutes /\ HasIdentity /\ Associates /\ OrderFree

\* C30 (amended): merge is commutative and has AnimationState() as its
\* identity; it is associative in blur and visible_chars, and in opacity,
\* scale, the offsets and rotation up to the rounding of the float products
\* and sums; the state Parallel.get_state returns is the same for every order
\* of at most two children, and for more children the same up to that rounding.
C30_MergeAlgebraUpToRounding ==
    Commutes /\ HasIdentity /\ AssociatesUpToRounding /\ OrderFreeUpToRounding

\* three states whose product of scales depends on the grouping, in the sum of
\* offsets as well
C30_Witness ==
    /\ MergedAgain
    /\ call.state.scale # merge(call.self, merge(call.other, call.third)).scale
    /\ call.state.offset_x # merge(call.self, merge(call.other, call.third)).offset_x
    /\ call.state.blur = merge(call.self, merge(call.other, call.third)).blur
    /\ call.self.blur # call.other.blur

----------------------------------------------------------------------------
(* Claims on the pipes between the frame loop and the encoder *)

\* render_video is between Popen and the return of process.wait()
Encoding == pc \in {"subtitles", "thumbnail", "loop", "wait"}

\* C24: the frame loop and the encoder cannot deadlock: while the render is
\* between the start of the encoder and the return of process.wait(), the
\* frame loop or the encoder can take a step, whatever the encoder has
\* written to stderr.
C24_NoDeadlock == Encoding => ENABLED NextPipe

====
